---- MODULE Spec2Model ----
(***************************************************************************)
(* A model of the rack controller's boot and DHCP layer:                   *)
(*   - provisioningserver/rackdservices/tftp.py: TFTPBackend's client      *)
(*     affinity (get_client_for), the de-duplicated GetBootConfig fetch    *)
(*     (get_kernel_params), get_reader, get_boot_method, get_boot_image    *)
(*     and TFTPService's updateServers;                                    *)
(*   - provisioningserver/rpc/dhcp.py: DHCPState and configure;            *)
(*   - maasserver/rpc/clusters.py: register_cluster.                       *)
(* The parts share no state; each has specifications of its own (SpecTFTP, *)
(* SpecReader, SpecMethod, SpecImage, SpecResolve, SpecSharing,            *)
(* SpecListeners; SpecDHCP, SpecRestart, SpecServers, SpecHostMaps,        *)
(* SpecRecovery, SpecState, SpecDiff; SpecClusters) that leave the         *)
(* variables of the other parts untouched.                                 *)
(***************************************************************************)
EXTENDS Integers, Sequences, FiniteSets, TLC

(***************************************************************************)
(* Bounds of the TFTP half.                                                *)
(***************************************************************************)
\* Number of boot requests handled in one behaviour.
NumReqs == 2

\* RPC clients: connections to region controller processes.
Clients == {1, 2}
Reqs == 1..NumReqs
\* Remote addresses of booting machines.
RemoteIPs == {1, 2}
\* params.get("remote_ip") is falsy.
NoIP == 0
\* The other GetBootConfig arguments extracted from the requested path.
Args == {1, 2}
\* client_to_remote.get(remote_ip, None) is None.
NoClient == 0
NoCall == 0

VARIABLES
    \* TFTPBackend.client_to_remote: remote IP -> client.
    client_to_remote,
    \* client_service.getAllClients(): the pool's currently live clients.
    live,
    \* per boot request: position in get_kernel_params and what it holds.
    req,
    \* RPCFetcher's table of calls in flight: pairs <<key, call>>.
    pending,
    \* every RPC call issued on a client, in order of issue.
    calls

tftp_vars == <<client_to_remote, live, req, pending, calls>>

(***************************************************************************)
(* Bounds and values of the DHCP half.                                     *)
(***************************************************************************)
\* Number of MAC addresses hosts are drawn from.
NumMacs == 2

\* server.dhcp_service of DHCPv4Server and DHCPv6Server.
Servers == {"dhcpd", "dhcpd6"}
Macs == 1..NumMacs
Ips == {1, 2}

VARIABLES
    \* dhcp._current_server_state: service name -> DHCPState, None or no entry.
    current_server_state,
    \* the service monitor's view of each DHCP service: [on, active].
    service,
    \* whether server.config_filename exists on disk.
    config_exists,
    \* the configure call of each server: position, locals and what it did.
    call

dhcp_vars == <<current_server_state, service, config_exists, call>>

(***************************************************************************)
(* State of the request pipeline (get_reader) and of the checks of the     *)
(* pure functions.                                                         *)
(***************************************************************************)
VARIABLES
    \* the get_reader call for one TFTP request: stage, locals and outcome.
    reader,
    \* a call of the module-level get_boot_image: arguments and result.
    image_lookup,
    \* two argument lists given to DHCPState and what comes of them.
    state_pair

reader_vars == <<reader>>
pure_vars == <<image_lookup, state_pair>>

(***************************************************************************)
(* State of TFTPService: the UDP servers it runs.                          *)
(***************************************************************************)
VARIABLES
    \* get_all_interface_addresses(): the addresses configured on the host.
    host_addresses,
    \* the services of the TFTPService, in the order they were added: the
    \* name of each and the pass that started it (0: __init__).
    services,
    \* the updateServers passes made so far: what each read and did.
    passes

listener_vars == <<host_addresses, services, passes>>

(***************************************************************************)
(* The mappings (dicts) the resolution of boot requests works on.          *)
(***************************************************************************)
VARIABLES
    \* every mapping created while requests are resolved, by identity: what
    \* it holds and which requests have read or written it.
    mappings,
    \* per boot request: the mappings it holds and what it got from them.
    resolution

sharing_vars == <<mappings, resolution>>

(***************************************************************************)
(* State of a get_boot_method call.                                        *)
(***************************************************************************)
VARIABLES
    \* the BootMethodRegistry, and the get_boot_method call on it: the
    \* position of its loop, the methods it has asked and its result.
    boot_method_search

method_vars == <<boot_method_search>>

(***************************************************************************)
(* State of the region's clusters (maasserver/rpc/clusters.py).            *)
(***************************************************************************)
VARIABLES
    \* the NodeGroup table: the clusters, in the order they were created.
    nodegroups,
    \* the register_cluster call made last: what it was given and did.
    registrations

cluster_vars == <<nodegroups, registrations>>

(***************************************************************************)
(* What is known of the configure call before the running one.             *)
(***************************************************************************)
VARIABLES
    \* per server, the configure call that ended last: what it was to
    \* achieve and how it ended.
    previous_call

history_vars == <<previous_call>>

vars == <<tftp_vars, dhcp_vars, reader_vars, pure_vars, listener_vars, sharing_vars, method_vars, cluster_vars, history_vars>>

Keys == Clients \X (RemoteIPs \cup {NoIP}) \X Args

NoResult == [status |-> "none", client |-> NoClient, remote_ip |-> NoIP, args |-> 0]

FreshReq ==
    [pc |-> "new", remote_ip |-> NoIP, args |-> 0, client |-> NoClient,
     store |-> FALSE, via |-> "none", call |-> NoCall, result |-> NoResult]

TFTPInit ==
    /\ client_to_remote = [ip \in RemoteIPs |-> NoClient]
    /\ live \in (SUBSET Clients) \ {{}}
    /\ req = [r \in Reqs |-> FreshReq]
    /\ pending = {}
    /\ calls = <<>>

(***************************************************************************)
(* RPCFetcher (provisioningserver.utils.twisted, not among the sources):   *)
(* modelled from the specification, section 4.1.                           *)
(***************************************************************************)
\* pending.get(key): the call in flight under `key`, NoCall without one.
PendingCall(key) ==
    IF \E p \in pending : p[1] = key
    THEN (CHOOSE p \in pending : p[1] = key)[2]
    ELSE NoCall

\* A new RPC call is issued on the client of `key` for request r.
IssueCall(r, rq, key) ==
    /\ calls' = Append(calls,
           [client |-> key[1], remote_ip |-> key[2], args |-> key[3],
            state |-> "open", status |-> "none"])
    /\ pending' = {p \in pending : p[1] # key} \cup {<<key, Len(calls) + 1>>}
    /\ req' = [req EXCEPT ![r] =
           [rq EXCEPT !.pc = "wait_rpc", !.client = key[1], !.call = Len(calls) + 1]]

\* RPCFetcher.__call__(client, GetBootConfig, **params): a call in flight
\* under the same key is shared, otherwise a call is issued.
FetcherCall(r, rq, key) ==
    IF PendingCall(key) # NoCall
    THEN /\ req' = [req EXCEPT ![r] =
                [rq EXCEPT !.pc = "wait_rpc", !.client = key[1], !.call = PendingCall(key)]]
         /\ UNCHANGED <<pending, calls>>
    ELSE IssueCall(r, rq, key)

\* The response of the region to a call: it answers the call it was sent.
Response(rpc, status) ==
    [status |-> status, client |-> rpc.client,
     remote_ip |-> rpc.remote_ip, args |-> rpc.args]

(***************************************************************************)
(* TFTPBackend.get_kernel_params.fetch: runs as the callback of            *)
(* get_client_for, with the client it delivered.                           *)
(***************************************************************************)
\* fetch as it would be with the client called directly.
FetchDirect(r, rq, client) ==
    IssueCall(r, rq, <<client, rq.remote_ip, rq.args>>)

\* fetch as it would be with only the remote address passed on.
FetchPartialArgs(r, rq, client) ==
    FetcherCall(r, rq, <<client, rq.remote_ip, 1>>)

\* self.fetcher(client, GetBootConfig, **params): params holds the remote
\* address, the other recognised arguments and system_id, which is
\* client.localIdent and so a function of the client.
Fetch(r, rq, client) ==
    FetcherCall(r, rq, <<client, rq.remote_ip, rq.args>>)

(***************************************************************************)
(* TFTPBackend.get_client_for                                              *)
(***************************************************************************)
\* "client in clients": the stored client is still among the live clients.
ClientStillValidAlways(client) == TRUE

ClientStillValid(client) == client \in live

\* Requests arrive in the order of their numbers.
Arrived(r) == req[r].pc # "new"

\* get_kernel_params(params) up to the first suspension: get_client_for
\* and, when it returns an already fired Deferred, fetch.
GetKernelParams(r, ip, args) ==
    /\ req[r].pc = "new"
    /\ \A q \in Reqs : q < r => Arrived(q)
    /\ LET rq == [req[r] EXCEPT !.remote_ip = ip, !.args = args]
       IN  IF ip = NoIP
           THEN \* return self.client_service.getClientNow()
                /\ req' = [req EXCEPT ![r] =
                       [rq EXCEPT !.pc = "wait_client", !.store = FALSE, !.via = "pool"]]
                /\ UNCHANGED <<client_to_remote, pending, calls>>
           ELSE IF client_to_remote[ip] = NoClient
           THEN \* return self._get_new_client_for_remote(remote_ip)
                /\ req' = [req EXCEPT ![r] =
                       [rq EXCEPT !.pc = "wait_client", !.store = TRUE, !.via = "new"]]
                /\ UNCHANGED <<client_to_remote, pending, calls>>
           ELSE IF ClientStillValid(client_to_remote[ip])
           THEN \* return succeed(client): fetch runs at once
                /\ Fetch(r, [rq EXCEPT !.via = "reused"], client_to_remote[ip])
                /\ UNCHANGED client_to_remote
           ELSE \* del self.client_to_remote[remote_ip], then a new client
                /\ client_to_remote' = [client_to_remote EXCEPT ![ip] = NoClient]
                /\ req' = [req EXCEPT ![r] =
                       [rq EXCEPT !.pc = "wait_client", !.store = TRUE, !.via = "evicted"]]
                /\ UNCHANGED <<pending, calls>>
    /\ UNCHANGED live

\* getClientNow() fires with a live client: store_client, then fetch.
ClientDelivered(r, client) ==
    /\ req[r].pc = "wait_client"
    /\ client \in live
    /\ client_to_remote' =
           IF req[r].store
           THEN [client_to_remote EXCEPT ![req[r].remote_ip] = client]
           ELSE client_to_remote
    /\ Fetch(r, req[r], client)
    /\ UNCHANGED live

\* getClientNow() fails (no connection could be made): the request fails
\* and store_client does not run.
ClientUnavailable(r) ==
    /\ req[r].pc = "wait_client"
    /\ live = {}
    /\ req' = [req EXCEPT ![r] =
           [@ EXCEPT !.pc = "failed", !.result = [NoResult EXCEPT !.status = "no_client"]]]
    /\ UNCHANGED <<client_to_remote, live, pending, calls>>

\* An RPC call completes with a response or a failure: RPCFetcher clears
\* the key and hands the one outcome to every caller waiting for the call.
RpcCompletes(c, status) ==
    /\ c \in 1..Len(calls)
    /\ calls[c].state = "open"
    /\ calls' = [calls EXCEPT ![c] = [@ EXCEPT !.state = "done", !.status = status]]
    /\ pending' = {p \in pending : p[2] # c}
    /\ req' = [r \in Reqs |->
           IF req[r].pc = "wait_rpc" /\ req[r].call = c
           THEN [req[r] EXCEPT !.pc = IF status = "ok" THEN "done" ELSE "failed",
                               !.result = Response(calls[c], status)]
           ELSE req[r]]
    /\ UNCHANGED <<client_to_remote, live>>

\* The pool gains or loses a connection to a region process.
ClientConnects(client) ==
    /\ client \notin live
    /\ live' = live \cup {client}
    /\ UNCHANGED <<client_to_remote, req, pending, calls>>

ClientDisconnects(client) ==
    /\ client \in live
    /\ live' = live \ {client}
    /\ UNCHANGED <<client_to_remote, req, pending, calls>>

TFTPNext ==
    \* handle_boot_method always sets params["remote_ip"] before it calls
    \* get_kernel_params, so the requests carry a remote address.
    \/ \E r \in Reqs, ip \in RemoteIPs, args \in Args :
           GetKernelParams(r, ip, args) /\ UNCHANGED <<dhcp_vars, reader_vars, pure_vars, listener_vars, sharing_vars, method_vars, cluster_vars, history_vars>>
    \/ \E r \in Reqs, client \in Clients :
           ClientDelivered(r, client) /\ UNCHANGED <<dhcp_vars, reader_vars, pure_vars, listener_vars, sharing_vars, method_vars, cluster_vars, history_vars>>
    \/ \E r \in Reqs : ClientUnavailable(r) /\ UNCHANGED <<dhcp_vars, reader_vars, pure_vars, listener_vars, sharing_vars, method_vars, cluster_vars, history_vars>>
    \/ \E c \in 1..NumReqs, status \in {"ok", "failed"} :
           RpcCompletes(c, status) /\ UNCHANGED <<dhcp_vars, reader_vars, pure_vars, listener_vars, sharing_vars, method_vars, cluster_vars, history_vars>>
    \/ \E client \in Clients : ClientConnects(client) /\ UNCHANGED <<dhcp_vars, reader_vars, pure_vars, listener_vars, sharing_vars, method_vars, cluster_vars, history_vars>>
    \/ \E client \in Clients : ClientDisconnects(client) /\ UNCHANGED <<dhcp_vars, reader_vars, pure_vars, listener_vars, sharing_vars, method_vars, cluster_vars, history_vars>>

(***************************************************************************)
(* provisioningserver/rpc/dhcp.py: DHCPState                               *)
(***************************************************************************)
\* Names (of failover peers, shared networks, interfaces and snippets) are
\* numbers, so that they can be sorted.
Snippet(n) == [name |-> n, value |-> n]
Named(n) == [name |-> n]

\* sorted(items, key=itemgetter("name")): x put behind the items whose
\* name is not greater, which keeps the sort stable.
RECURSIVE InsertByName(_, _)
InsertByName(x, sorted) ==
    IF sorted = <<>> THEN <<x>>
    ELSE IF x.name < Head(sorted).name THEN <<x>> \o sorted
    ELSE <<Head(sorted)>> \o InsertByName(x, Tail(sorted))

RECURSIVE SortedByName(_)
SortedByName(items) ==
    IF items = <<>> THEN <<>>
    ELSE InsertByName(items[Len(items)], SortedByName(SubSeq(items, 1, Len(items) - 1)))

\* {host["mac"]: host for host in hosts}: a dict keeps the position of the
\* first host of a MAC and the value of the last one.
RECURSIVE HostsDict(_)
HostsDict(hosts) ==
    IF hosts = <<>> THEN <<>>
    ELSE LET before == HostsDict(SubSeq(hosts, 1, Len(hosts) - 1))
             host == hosts[Len(hosts)]
         IN  IF \E i \in 1..Len(before) : before[i].mac = host.mac
             THEN [i \in 1..Len(before) |->
                      IF before[i].mac = host.mac THEN host ELSE before[i]]
             ELSE Append(before, host)

HasMac(hosts, mac) == \E i \in 1..Len(hosts) : hosts[i].mac = mac
HostOf(hosts, mac) == hosts[CHOOSE i \in 1..Len(hosts) : hosts[i].mac = mac]

\* _current_server_state has no entry for the service.
Absent ==
    [kind |-> "absent", omapi_key |-> 0, failover_peers |-> <<>>,
     shared_networks |-> <<>>, hosts |-> <<>>, interfaces |-> <<>>,
     global_dhcp_snippets |-> <<>>]

\* The entry is None.
None == [Absent EXCEPT !.kind = "none"]

\* DHCPState.__new__
DHCPState(omapi_key, failover_peers, shared_networks, hosts, interfaces, global_dhcp_snippets) ==
    [kind |-> "state",
     omapi_key |-> omapi_key,
     failover_peers |-> SortedByName(failover_peers),
     shared_networks |-> SortedByName(shared_networks),
     hosts |-> HostsDict(hosts),
     interfaces |->
         LET sorted == SortedByName(interfaces)
         IN  [i \in 1..Len(sorted) |-> sorted[i].name],
     global_dhcp_snippets |-> SortedByName(global_dhcp_snippets)]

\* gather_hosts_dhcp_snippets: the snippets of all hosts, sorted by name.
RECURSIVE HostsSnippets(_)
HostsSnippets(hosts) ==
    IF hosts = <<>> THEN <<>>
    ELSE Head(hosts).dhcp_snippets \o HostsSnippets(Tail(hosts))

gather_hosts_dhcp_snippets(hosts) == SortedByName(HostsSnippets(hosts))

\* DHCPState.requires_restart
requires_restart_without_interfaces(self, other_state) ==
    \/ self.omapi_key # other_state.omapi_key
    \/ self.failover_peers # other_state.failover_peers
    \/ self.shared_networks # other_state.shared_networks
    \/ self.global_dhcp_snippets # other_state.global_dhcp_snippets
    \/ gather_hosts_dhcp_snippets(self.hosts)
           # gather_hosts_dhcp_snippets(other_state.hosts)

requires_restart(self, other_state) ==
    \/ self.omapi_key # other_state.omapi_key
    \/ self.failover_peers # other_state.failover_peers
    \/ self.shared_networks # other_state.shared_networks
    \/ self.interfaces # other_state.interfaces
    \/ self.global_dhcp_snippets # other_state.global_dhcp_snippets
    \/ gather_hosts_dhcp_snippets(self.hosts)
           # gather_hosts_dhcp_snippets(other_state.hosts)

\* DHCPState.host_diff: the hosts to remove, to add and to modify.
host_diff_modify_never(self, other_state) ==
    [remove |-> SelectSeq(other_state.hosts,
                          LAMBDA host : ~HasMac(self.hosts, host.mac)),
     add |-> SelectSeq(self.hosts,
                       LAMBDA host : ~HasMac(other_state.hosts, host.mac)),
     modify |-> <<>>]

host_diff_modify_all(self, other_state) ==
    [remove |-> SelectSeq(other_state.hosts,
                          LAMBDA host : ~HasMac(self.hosts, host.mac)),
     add |-> SelectSeq(self.hosts,
                       LAMBDA host : ~HasMac(other_state.hosts, host.mac)),
     modify |-> SelectSeq(self.hosts,
                          LAMBDA host : HasMac(other_state.hosts, host.mac))]

host_diff(self, other_state) ==
    [remove |-> SelectSeq(other_state.hosts,
                          LAMBDA host : ~HasMac(self.hosts, host.mac)),
     add |-> SelectSeq(self.hosts,
                       LAMBDA host : ~HasMac(other_state.hosts, host.mac)),
     modify |-> SelectSeq(self.hosts,
                          LAMBDA host :
                              /\ HasMac(other_state.hosts, host.mac)
                              /\ host.ip # HostOf(other_state.hosts, host.mac).ip)]

\* sorted(self.hosts.values(), key=itemgetter("host")): a host is named
\* after its MAC, so the hosts are listed by MAC.
RECURSIVE InsertByHost(_, _)
InsertByHost(x, sorted) ==
    IF sorted = <<>> THEN <<x>>
    ELSE IF x.mac < Head(sorted).mac THEN <<x>> \o sorted
    ELSE <<Head(sorted)>> \o InsertByHost(x, Tail(sorted))

RECURSIVE SortedByHost(_)
SortedByHost(hosts) ==
    IF hosts = <<>> THEN <<>>
    ELSE InsertByHost(hosts[Len(hosts)], SortedByHost(SubSeq(hosts, 1, Len(hosts) - 1)))

\* DHCPState.get_config: the interfaces file is " ".join(self.interfaces),
\* kept here as the list of the names joined.
interfaces_config(self) == self.interfaces

\* DHCPState.get_config: what goes into the config file and into the
\* interfaces file.
get_config(self) ==
    [dhcpd_config |->
         [omapi_key |-> self.omapi_key,
          failover_peers |-> self.failover_peers,
          shared_networks |-> self.shared_networks,
          hosts |-> SortedByHost(self.hosts),
          global_dhcp_snippets |-> SortedByName(self.global_dhcp_snippets)],
     interfaces_config |-> interfaces_config(self)]

(***************************************************************************)
(* What a configure call does to the outside, in order.                    *)
(***************************************************************************)
Event(op, ok) == [op |-> op, mac |-> 0, ip |-> 0, ok |-> ok]
HostEvent(op, mac, ip, ok) == [op |-> op, mac |-> mac, ip |-> ip, ok |-> ok]

\* _update_hosts: the OMAPI calls in the order they are made; omshell.remove
\* takes the MAC only.
RECURSIVE RemoveCalls(_)
RemoveCalls(hosts) ==
    IF hosts = <<>> THEN <<>>
    ELSE <<HostEvent("remove", Head(hosts).mac, 0, TRUE)>> \o RemoveCalls(Tail(hosts))

RECURSIVE CreateCalls(_)
CreateCalls(hosts) ==
    IF hosts = <<>> THEN <<>>
    ELSE <<HostEvent("create", Head(hosts).mac, Head(hosts).ip, TRUE)>>
             \o CreateCalls(Tail(hosts))

RECURSIVE ModifyCalls(_)
ModifyCalls(hosts) ==
    IF hosts = <<>> THEN <<>>
    ELSE <<HostEvent("remove", Head(hosts).mac, 0, TRUE),
           HostEvent("create", Head(hosts).mac, Head(hosts).ip, TRUE)>>
             \o ModifyCalls(Tail(hosts))

update_hosts_calls_additions_first(remove, add, modify) ==
    CreateCalls(add) \o RemoveCalls(remove) \o ModifyCalls(modify)

update_hosts_calls(remove, add, modify) ==
    RemoveCalls(remove) \o CreateCalls(add) \o ModifyCalls(modify)

\* The calls of _update_hosts when the call at position `failing` raises:
\* the calls before it succeed and none is made after it.
CallsUntilFailure(planned, failing) ==
    [i \in 1..failing |->
        IF i = failing THEN [planned[i] EXCEPT !.ok = FALSE] ELSE planned[i]]

(***************************************************************************)
(* provisioningserver/rpc/dhcp.py: configure                               *)
(***************************************************************************)
IdleCall ==
    [pc |-> "idle", stopping |-> FALSE, new_state |-> None,
     before_state |-> "unknown", diff |-> [remove |-> <<>>, add |-> <<>>, modify |-> <<>>],
     log |-> <<>>, result |-> "none",
     \* the files _write_config has written, with what it wrote
     written |-> <<>>,
     \* the remembered state and the config file as the call found them
     found_state |-> Absent, found_config |-> FALSE, found_active |-> FALSE]

\* The module is loaded with nothing remembered; the DHCP daemons and
\* their config files may be there from before.
DHCPInit ==
    /\ current_server_state = [s \in Servers |-> Absent]
    /\ \E running \in BOOLEAN :
           service = [s \in Servers |-> [on |-> running, active |-> running]]
    /\ \E written \in BOOLEAN :
           config_exists = [s \in Servers |-> written]
    /\ call = [s \in Servers |-> IdleCall]

\* What service actions can end with.
ServiceOutcomes == {"ok", "ServiceActionError", "Exception"}

\* _catch_service_error.eb: every failure is squashed into CannotConfigureDHCP.
catch_service_error_raw(failure) == failure

catch_service_error(failure) == "CannotConfigureDHCP"

\* _write_config's except clause: ExternalProcessError becomes
\* CannotConfigureDHCP.
write_config_error_raw(failure) == failure

write_config_error(failure) ==
    IF failure = "ExternalProcessError" THEN "CannotConfigureDHCP" ELSE failure

Logged(s, events) == call[s].log \o events

\* server.dhcp_service: the service name, the key of the server's entry in
\* _current_server_state.  A server is named by its service here.
dhcp_service_v4(server) == "dhcpd"

dhcp_service(server) == server

\* An exception leaves configure: the call ends and the assignment to
\* _current_server_state is not reached.
RaisedAfterRemembering(s, events, error) ==
    /\ call' = [call EXCEPT ![s] =
           [@ EXCEPT !.pc = "done", !.log = Logged(s, events), !.result = error]]
    /\ current_server_state' = [current_server_state EXCEPT ![dhcp_service(s)] =
           IF call[s].stopping THEN None ELSE call[s].new_state]

Raised(s, events, error) ==
    /\ call' = [call EXCEPT ![s] =
           [@ EXCEPT !.pc = "done", !.log = Logged(s, events), !.result = error]]
    /\ UNCHANGED current_server_state

\* configure returns: _current_server_state[server.dhcp_service] = state.
ReturnedWithoutRemembering(s, events, state) ==
    /\ call' = [call EXCEPT ![s] =
           [@ EXCEPT !.pc = "done", !.log = Logged(s, events), !.result = "ok"]]
    /\ UNCHANGED current_server_state

Returned(s, events, state) ==
    /\ call' = [call EXCEPT ![s] =
           [@ EXCEPT !.pc = "done", !.log = Logged(s, events), !.result = "ok"]]
    /\ current_server_state' = [current_server_state EXCEPT ![dhcp_service(s)] = state]

\* configure(server, ...) is called; the caller has let the previous call
\* for this server end.  Up to the first deferToThread.
Configure(s, input) ==
    /\ call[s].pc = "idle"
    /\ call' = [call EXCEPT ![s] =
           [IdleCall EXCEPT
               !.stopping = (Len(input.shared_networks) = 0),
               !.pc = IF Len(input.shared_networks) = 0
                      THEN "delete_config" ELSE "write_config",
               !.new_state =
                   IF Len(input.shared_networks) = 0 THEN None
                   ELSE DHCPState(input.omapi_key, input.failover_peers,
                                  input.shared_networks, input.hosts,
                                  input.interfaces, input.global_dhcp_snippets),
               !.found_state = current_server_state[dhcp_service(s)],
               !.found_config = config_exists[s],
               !.found_active = service[s].active]]
    /\ UNCHANGED <<current_server_state, service, config_exists>>

\* _delete_config: os.path.exists(server.config_filename).
delete_config_never(s) == FALSE

delete_config_needed(s) == config_exists[s]

\* Stop case: _delete_config in a thread, then service.off() and the
\* start of ensureService.
DeleteConfig(s, ok) ==
    /\ call[s].pc = "delete_config"
    /\ IF ~delete_config_needed(s)
       THEN /\ call' = [call EXCEPT ![s] =
                   [@ EXCEPT !.pc = "stop", !.log = Logged(s, <<Event("off", TRUE)>>)]]
            /\ service' = [service EXCEPT ![s].on = FALSE]
            /\ UNCHANGED <<config_exists, current_server_state>>
       ELSE IF ok
       THEN /\ call' = [call EXCEPT ![s] =
                   [@ EXCEPT !.pc = "stop",
                             !.log = Logged(s, <<Event("delete_config", TRUE),
                                                 Event("off", TRUE)>>)]]
            /\ config_exists' = [config_exists EXCEPT ![s] = FALSE]
            /\ service' = [service EXCEPT ![s].on = FALSE]
            /\ UNCHANGED current_server_state
       ELSE \* sudo_delete_file raises; nothing in configure catches it
            /\ Raised(s, <<Event("delete_config", FALSE)>>, "ExternalProcessError")
            /\ UNCHANGED <<service, config_exists>>

\* Stop case: ensureService ends; the service is off, so it is stopped.
StopService(s, outcome) ==
    /\ call[s].pc = "stop"
    /\ IF outcome = "ok"
       THEN /\ Returned(s, <<Event("ensureService", TRUE)>>, None)
            /\ service' = [service EXCEPT ![s].active = service[s].on]
       ELSE /\ Raised(s, <<Event("ensureService", FALSE)>>, catch_service_error(outcome))
            /\ UNCHANGED service
    /\ UNCHANGED config_exists

\* The branch configure takes after service.on().
NextStepNoFirstRestart(new_state, current_state) ==
    IF current_state.kind # "state" THEN "ensure"
    ELSE IF requires_restart(new_state, current_state) THEN "restart"
    ELSE LET diff == host_diff(new_state, current_state)
         IN  IF Len(diff.remove) + Len(diff.add) + Len(diff.modify) = 0
             THEN "ensure" ELSE "query"

NextStepAlwaysRestart(new_state, current_state) == "restart"

NextStep(new_state, current_state) ==
    IF current_state.kind # "state" THEN "restart"
    ELSE IF requires_restart(new_state, current_state) THEN "restart"
    ELSE LET diff == host_diff(new_state, current_state)
         IN  IF Len(diff.remove) + Len(diff.add) + Len(diff.modify) = 0
             THEN "ensure" ELSE "query"

\* "Always write the config, that way its always up-to-date."
write_config_when_changed(new_state, current_state) == new_state # current_state

write_config_always(new_state, current_state) == TRUE

\* sudo_write_file(filename, content)
FileWritten(file, content) == [file |-> file, content |-> content]

\* _write_config raises: the exception leaves configure at the yield.
after_write_failure_go_on(s, made, error) ==
    /\ call' = [call EXCEPT ![s] = [@ EXCEPT !.pc = "restart", !.log = Logged(s, made)]]
    /\ UNCHANGED current_server_state

after_write_failure(s, made, error) == Raised(s, made, error)

\* Configure case: _write_config in a thread (the config file, then the
\* interfaces file), then service.on() and the choice of what to do.
WriteConfig(s, outcome) ==
    /\ call[s].pc = "write_config"
    /\ LET config == get_config(call[s].new_state)
           writing == write_config_always(call[s].new_state, current_server_state[dhcp_service(s)])
       IN  CASE outcome = "config_fails" ->
                /\ writing
                /\ after_write_failure(s, <<Event("write_config", FALSE)>>,
                                       write_config_error("ExternalProcessError"))
                /\ UNCHANGED <<service, config_exists>>
         [] outcome = "interfaces_fails" ->
                /\ writing
                /\ call' = [call EXCEPT ![s] =
                       [@ EXCEPT !.pc = "done",
                                 !.log = Logged(s, <<Event("write_config", TRUE),
                                                     Event("write_interfaces", FALSE)>>),
                                 !.result = write_config_error("ExternalProcessError"),
                                 !.written = <<FileWritten("config", config.dhcpd_config)>>]]
                /\ config_exists' = [config_exists EXCEPT ![s] = TRUE]
                /\ UNCHANGED <<service, current_server_state>>
         [] outcome = "ok" ->
                /\ config_exists' = [config_exists EXCEPT ![s] = writing \/ @]
                /\ service' = [service EXCEPT ![s].on = TRUE]
                /\ call' = [call EXCEPT ![s] =
                       [@ EXCEPT
                           !.pc = NextStep(call[s].new_state, current_server_state[dhcp_service(s)]),
                           !.diff =
                               IF current_server_state[dhcp_service(s)].kind = "state"
                               THEN host_diff(call[s].new_state, current_server_state[dhcp_service(s)])
                               ELSE IdleCall.diff,
                           !.written =
                               IF writing
                               THEN <<FileWritten("config", config.dhcpd_config),
                                      FileWritten("interfaces", config.interfaces_config)>>
                               ELSE <<>>,
                           !.log = Logged(s,
                               (IF writing
                                THEN <<Event("write_config", TRUE),
                                       Event("write_interfaces", TRUE)>>
                                ELSE <<>>) \o <<Event("on", TRUE)>>)]]
                /\ UNCHANGED current_server_state

\* restartService ends: first configuration or structural change.
RestartService(s, outcome) ==
    /\ call[s].pc = "restart"
    /\ IF outcome = "ok"
       THEN /\ Returned(s, <<Event("restartService", TRUE)>>, call[s].new_state)
            /\ service' = [service EXCEPT ![s].active = TRUE]
       ELSE /\ Raised(s, <<Event("restartService", FALSE)>>, catch_service_error(outcome))
            /\ UNCHANGED service
    /\ UNCHANGED config_exists

\* ensureService ends: nothing has changed, make sure it is running.
EnsureService(s, outcome) ==
    /\ call[s].pc = "ensure"
    /\ IF outcome = "ok"
       THEN /\ Returned(s, <<Event("ensureService", TRUE)>>, call[s].new_state)
            /\ service' = [service EXCEPT ![s].active = service[s].on]
       ELSE /\ Raised(s, <<Event("ensureService", FALSE)>>, catch_service_error(outcome))
            /\ UNCHANGED service
    /\ UNCHANGED config_exists

\* getServiceState(server.dhcp_service, now=True) ends; a failure of it is
\* not caught.
GetServiceState(s, outcome) ==
    /\ call[s].pc = "query"
    /\ IF outcome = "ok"
       THEN /\ call' = [call EXCEPT ![s] =
                   [@ EXCEPT !.pc = "ensure_then_update",
                             !.before_state = IF service[s].active THEN "on" ELSE "off",
                             !.log = Logged(s, <<Event("getServiceState", TRUE)>>)]]
            /\ UNCHANGED current_server_state
       ELSE Raised(s, <<Event("getServiceState", FALSE)>>, outcome)
    /\ UNCHANGED <<service, config_exists>>

\* before_state.active_state == SERVICE_STATE.ON
was_running_always(before_state) == TRUE

was_running(before_state) == before_state = "on"

\* ensureService ends before the host maps are updated.
EnsureThenUpdate(s, outcome) ==
    /\ call[s].pc = "ensure_then_update"
    /\ IF outcome # "ok"
       THEN /\ Raised(s, <<Event("ensureService", FALSE)>>, catch_service_error(outcome))
            /\ UNCHANGED service
       ELSE /\ service' = [service EXCEPT ![s].active = service[s].on]
            /\ IF was_running(call[s].before_state)
               THEN /\ call' = [call EXCEPT ![s] =
                           [@ EXCEPT !.pc = "update_hosts",
                                     !.log = Logged(s, <<Event("ensureService", TRUE)>>)]]
                    /\ UNCHANGED current_server_state
               ELSE Returned(s, <<Event("ensureService", TRUE)>>, call[s].new_state)
    /\ UNCHANGED config_exists

\* What configure does when _update_hosts raises.
after_update_failure_give_up(s, made) == Raised(s, made, "CannotConfigureDHCP")

after_update_failure(s, made) ==
    /\ call' = [call EXCEPT ![s] =
           [@ EXCEPT !.pc = "fallback_restart", !.log = Logged(s, made)]]
    /\ UNCHANGED current_server_state

\* _update_hosts in a thread: all calls succeed (failing = 0) or the call
\* at position `failing` raises.
UpdateHosts(s, failing) ==
    /\ call[s].pc = "update_hosts"
    /\ LET planned == update_hosts_calls(call[s].diff.remove, call[s].diff.add,
                                         call[s].diff.modify)
       IN  /\ failing \in 0..Len(planned)
           /\ IF failing = 0
              THEN Returned(s, planned, call[s].new_state)
              ELSE after_update_failure(s, CallsUntilFailure(planned, failing))
    /\ UNCHANGED <<service, config_exists>>

\* The restart after a failed host map update ends.
FallbackRestart(s, outcome) ==
    /\ call[s].pc = "fallback_restart"
    /\ IF outcome = "ok"
       THEN /\ Returned(s, <<Event("restartService", TRUE)>>, call[s].new_state)
            /\ service' = [service EXCEPT ![s].active = TRUE]
       ELSE /\ Raised(s, <<Event("restartService", FALSE)>>, catch_service_error(outcome))
            /\ UNCHANGED service
    /\ UNCHANGED config_exists

\* The DHCP daemon dies on its own.
ServiceDies(s) ==
    /\ service[s].active
    /\ service' = [service EXCEPT ![s].active = FALSE]
    /\ UNCHANGED <<current_server_state, config_exists, call>>

\* The caller of configure gets the result; the call is over.
CallEnds(s) ==
    /\ call[s].pc = "done"
    /\ call' = [call EXCEPT ![s] = IdleCall]
    /\ UNCHANGED <<current_server_state, service, config_exists>>

\* The host lists given to configure: hosts of different MACs, by MAC; the
\* host of the first MAC may carry a DHCP snippet.
HostSnippetLists == {<<>>, <<Snippet(1)>>}
Hosts ==
    {host \in [mac : Macs, ip : Ips, dhcp_snippets : HostSnippetLists] :
        host.dhcp_snippets # <<>> => host.mac = 1}
HostLists ==
    {hosts \in UNION {[1..n -> Hosts] : n \in 0..NumMacs} :
        \A i, j \in 1..Len(hosts) : i < j => hosts[i].mac < hosts[j].mac}

ConfigureInputs ==
    [omapi_key : {1},
     failover_peers : {<<>>},
     shared_networks : {<<>>, <<Named(1)>>},
     hosts : HostLists,
     interfaces : {<<Named(1)>>},
     global_dhcp_snippets : {<<>>}]

DHCPNext ==
    \/ \E input \in ConfigureInputs :
           Configure("dhcpd", input) /\ UNCHANGED <<tftp_vars, reader_vars, pure_vars, listener_vars, sharing_vars, method_vars, cluster_vars, history_vars>>
    \/ \E ok \in BOOLEAN : DeleteConfig("dhcpd", ok) /\ UNCHANGED <<tftp_vars, reader_vars, pure_vars, listener_vars, sharing_vars, method_vars, cluster_vars, history_vars>>
    \/ \E outcome \in ServiceOutcomes :
           StopService("dhcpd", outcome) /\ UNCHANGED <<tftp_vars, reader_vars, pure_vars, listener_vars, sharing_vars, method_vars, cluster_vars, history_vars>>
    \/ \E outcome \in {"ok", "config_fails", "interfaces_fails"} :
           WriteConfig("dhcpd", outcome) /\ UNCHANGED <<tftp_vars, reader_vars, pure_vars, listener_vars, sharing_vars, method_vars, cluster_vars, history_vars>>
    \/ \E outcome \in ServiceOutcomes :
           RestartService("dhcpd", outcome) /\ UNCHANGED <<tftp_vars, reader_vars, pure_vars, listener_vars, sharing_vars, method_vars, cluster_vars, history_vars>>
    \/ \E outcome \in ServiceOutcomes :
           EnsureService("dhcpd", outcome) /\ UNCHANGED <<tftp_vars, reader_vars, pure_vars, listener_vars, sharing_vars, method_vars, cluster_vars, history_vars>>
    \/ \E outcome \in ServiceOutcomes :
           GetServiceState("dhcpd", outcome) /\ UNCHANGED <<tftp_vars, reader_vars, pure_vars, listener_vars, sharing_vars, method_vars, cluster_vars, history_vars>>
    \/ \E outcome \in ServiceOutcomes :
           EnsureThenUpdate("dhcpd", outcome) /\ UNCHANGED <<tftp_vars, reader_vars, pure_vars, listener_vars, sharing_vars, method_vars, cluster_vars, history_vars>>
    \/ \E failing \in 0..(2 * NumMacs) :
           UpdateHosts("dhcpd", failing) /\ UNCHANGED <<tftp_vars, reader_vars, pure_vars, listener_vars, sharing_vars, method_vars, cluster_vars, history_vars>>
    \/ \E outcome \in ServiceOutcomes :
           FallbackRestart("dhcpd", outcome) /\ UNCHANGED <<tftp_vars, reader_vars, pure_vars, listener_vars, sharing_vars, method_vars, cluster_vars, history_vars>>
    \/ CallEnds("dhcpd") /\ UNCHANGED <<tftp_vars, reader_vars, pure_vars, listener_vars, sharing_vars, method_vars, cluster_vars, history_vars>>
    \/ ServiceDies("dhcpd") /\ UNCHANGED <<tftp_vars, reader_vars, pure_vars, listener_vars, sharing_vars, method_vars, cluster_vars, history_vars>>

\* No request is being read, no function is being applied.
NoReader ==
    [stage |-> "idle", file_name |-> "", request_logged |-> FALSE,
     raised |-> [type |-> "none", message |-> "", detail |-> FALSE],
     result |-> [kind |-> "none"],
     lost_logged |-> FALSE, fs_read |-> FALSE,
     response |-> [purpose |-> "none"], boot_images |-> <<>>,
     rendered |-> FALSE, kernel_label |-> "", label |-> "",
     marks |-> <<>>, enlistment_errors |-> <<>>]
NoLookup == [done |-> FALSE]
NoPair == [done |-> FALSE]

\* self.refresher
refresher == [name |-> "refresher", since |-> 0]

\* TFTPService.__init__: the refresher is the only service; no pass yet.
NoListeners ==
    /\ host_addresses = {}
    /\ services = <<refresher>>
    /\ passes = <<>>

\* No request has been resolved: no mapping exists.
NoResolution ==
    [params |-> 0, arguments |-> 0, response |-> 0,
     sent |-> [system_id |-> "none", purpose |-> "none"], boot_images |-> <<>>,
     system_id |-> "none", kernel_label |-> "", label |-> "",
     marks |-> <<>>, errors |-> <<>>]
NoSharing ==
    /\ mappings = <<>>
    /\ resolution = [r \in Reqs |-> NoResolution]

\* No get_boot_method call has been made.
NoSearch == [pc |-> "idle"]

\* No cluster is known and none has registered.
NoClusters ==
    /\ nodegroups = <<>>
    /\ registrations = <<>>

\* No configure call has ended.
NoPrevious == [result |-> "none", stopping |-> FALSE, new_state |-> None]
NoHistory == previous_call = [s \in Servers |-> NoPrevious]

(***************************************************************************)
(* Specifications                                                          *)
(***************************************************************************)
\* Boot requests are served while no DHCP service is configured.
InitTFTP ==
    /\ TFTPInit
    /\ DHCPInit
    /\ \A s \in Servers : ~service[s].active /\ ~config_exists[s]
    /\ reader = NoReader /\ image_lookup = NoLookup /\ state_pair = NoPair
    /\ NoListeners /\ NoSharing
    /\ boot_method_search = NoSearch /\ NoClusters /\ NoHistory

SpecTFTP == InitTFTP /\ [][TFTPNext]_vars

\* configure is called while no boot request is being served.
InitDHCP ==
    /\ TFTPInit /\ live = Clients
    /\ DHCPInit
    /\ reader = NoReader /\ image_lookup = NoLookup /\ state_pair = NoPair
    /\ NoListeners /\ NoSharing
    /\ boot_method_search = NoSearch /\ NoClusters /\ NoHistory

SpecDHCP == InitDHCP /\ [][DHCPNext]_vars

(***************************************************************************)
(* Properties of the TFTP half.                                            *)
(***************************************************************************)
KeyOfReq(r) == <<req[r].client, req[r].remote_ip, req[r].args>>
KeyOfCall(c) == <<calls[c].client, calls[c].remote_ip, calls[c].args>>
HasCall(r) == req[r].call # NoCall
WaitingForPool(ip) ==
    \E q \in Reqs : req[q].pc = "wait_client" /\ req[q].remote_ip = ip

\* C1: fetches in flight at the same time under the same (client,
\* operation, arguments) key share exactly one RPC call on the client, and
\* the callers of one call all end with the same outcome.
C1_OneCallPerKey ==
    /\ \A k \in Keys :
           Cardinality({c \in 1..Len(calls) :
                            calls[c].state = "open" /\ KeyOfCall(c) = k}) <= 1
    /\ \A r \in Reqs :
           req[r].pc = "wait_rpc" =>
               /\ req[r].call \in 1..Len(calls)
               /\ calls[req[r].call].state = "open"
    /\ \A r1, r2 \in Reqs :
           /\ req[r1].pc = "wait_rpc" /\ req[r2].pc = "wait_rpc"
                  /\ KeyOfReq(r1) = KeyOfReq(r2)
              => req[r1].call = req[r2].call
           /\ HasCall(r1) /\ req[r1].call = req[r2].call
              => req[r1].pc = req[r2].pc /\ req[r1].result = req[r2].result

\* Two requests were served by the one RPC call that was issued.
C1_Witness ==
    \E r1, r2 \in Reqs :
        /\ r1 # r2
        /\ req[r1].pc = "done" /\ req[r2].pc = "done"
        /\ HasCall(r1) /\ req[r1].call = req[r2].call
        /\ Len(calls) = 1

\* C2: fetches that differ in client or arguments are never merged: each
\* is served by a call made with its own client and arguments, and gets the
\* response to that call.
C2_NeverMerged ==
    /\ \A r \in Reqs :
           HasCall(r) =>
               /\ req[r].call \in 1..Len(calls)
               /\ KeyOfCall(req[r].call) = KeyOfReq(r)
               /\ req[r].pc \in {"done", "failed"} =>
                      /\ req[r].result.client = req[r].client
                      /\ req[r].result.remote_ip = req[r].remote_ip
                      /\ req[r].result.args = req[r].args
    /\ \A r1, r2 \in Reqs :
           HasCall(r1) /\ HasCall(r2) /\ KeyOfReq(r1) # KeyOfReq(r2)
               => req[r1].call # req[r2].call

\* Two fetches for the same machine and arguments, on different clients,
\* are in flight at once, each with a call of its own.
C2_Witness ==
    \E r1, r2 \in Reqs :
        /\ req[r1].pc = "wait_rpc" /\ req[r2].pc = "wait_rpc"
        /\ req[r1].remote_ip = req[r2].remote_ip
        /\ req[r1].args = req[r2].args
        /\ req[r1].client # req[r2].client
        /\ req[r1].call # req[r2].call

\* C3: a get_client_for call that finds a stored client which is still
\* live returns it without asking the pool and leaves the mapping alone;
\* one that finds a stored client which is no longer live evicts the
\* mapping and asks the pool; the client the pool then hands out is live,
\* is returned to the caller and is stored for the remote IP.
C3_SequentialAffinity ==
    [][\A r \in Reqs :
          LET ip == req'[r].remote_ip
              stored == client_to_remote[ip]
          IN  /\ req[r].pc = "new" /\ req'[r].pc # "new" /\ stored # NoClient
                     /\ stored \in live
                 => /\ req'[r].pc = "wait_rpc"
                    /\ req'[r].client = stored
                    /\ client_to_remote' = client_to_remote
              /\ req[r].pc = "new" /\ req'[r].pc # "new" /\ stored # NoClient
                     /\ stored \notin live
                 => /\ req'[r].pc = "wait_client"
                    /\ req'[r].client = NoClient
                    /\ client_to_remote'[ip] = NoClient
              /\ req[r].pc = "wait_client" /\ req'[r].pc = "wait_rpc"
                 => /\ req'[r].client \in live
                    /\ client_to_remote'[ip] = req'[r].client]_vars

\* A second call for a remote IP found the stored client dead, evicted it
\* and got and stored another client.
C3_Witness ==
    \E r1, r2 \in Reqs :
        /\ req[r1].remote_ip = req[r2].remote_ip
        /\ req[r1].via = "new" /\ req[r1].client # NoClient
        /\ req[r2].via = "evicted" /\ req[r2].client # NoClient
        /\ req[r2].client # req[r1].client
        /\ client_to_remote[req[r2].remote_ip] = req[r2].client

\* C4: as long as no call for a remote IP has found the stored client dead
\* and the clients handed out are live, all get_client_for calls for that
\* IP return the same client in every interleaving, and once none of them waits for the pool that client is
\* the one stored for the IP.
C4_AffinityUnderInterleaving ==
    \A r1, r2 \in Reqs :
        /\ req[r1].remote_ip = req[r2].remote_ip
        /\ req[r1].client \in live /\ req[r2].client \in live
        /\ \A q \in Reqs :
               req[q].remote_ip = req[r1].remote_ip => req[q].via # "evicted"
        => /\ req[r1].client = req[r2].client
           /\ ~WaitingForPool(req[r1].remote_ip)
                  => client_to_remote[req[r1].remote_ip] = req[r1].client

(***************************************************************************)
(* Properties of the DHCP half.                                            *)
(***************************************************************************)
Ops(log) == [i \in 1..Len(log) |-> log[i].op]
AllOk(log) == \A i \in 1..Len(log) : log[i].ok
AllButLastOk(log) == \A i \in 1..(Len(log) - 1) : log[i].ok
IsPrefix(a, b) == Len(a) <= Len(b) /\ a = SubSeq(b, 1, Len(a))
CountOp(log, op) == Cardinality({i \in 1..Len(log) : log[i].op = op})
CountHostOp(log, op, mac) ==
    Cardinality({i \in 1..Len(log) : log[i].op = op /\ log[i].mac = mac})
HostMapOps == {"remove", "create"}

\* C5: a configure call with a shared network that finds no remembered
\* state (no entry or None) writes the config file and the interfaces file,
\* marks the service on and issues one restartService, in this order and
\* stopping at the first step that fails; it makes no host map call and no
\* service state query; it succeeds exactly when all four steps did, and
\* then the remembered state is the new state.
C5_FirstTimeConfigure ==
    \A s \in Servers :
        LET c == call[s]
            steps == <<"write_config", "write_interfaces", "on", "restartService">>
        IN  c.pc # "idle" /\ ~c.stopping /\ c.found_state.kind # "state" =>
                /\ IsPrefix(Ops(c.log), steps)
                /\ AllButLastOk(c.log)
                /\ c.pc = "done" =>
                       /\ c.result = "ok" <=> (Len(c.log) = 4 /\ AllOk(c.log))
                       /\ c.result = "ok" =>
                              /\ current_server_state[s] = c.new_state
                              /\ config_exists[s]
                              /\ service[s].on

\* A call that found the remembered state None has restarted the service.
C5_Witness ==
    \E s \in Servers :
        /\ call[s].pc = "done" /\ call[s].result = "ok"
        /\ ~call[s].stopping
        /\ call[s].found_state = None
        /\ Len(call[s].log) = 4
        /\ call[s].log[4].op = "restartService"
        /\ current_server_state[s] = call[s].new_state

\* The hosts of a state as a set of MACs, and the changes between states.
MacsOf(state) == {state.hosts[i].mac : i \in 1..Len(state.hosts)}
AddedMacs(new, old) == MacsOf(new) \ MacsOf(old)
RemovedMacs(new, old) == MacsOf(old) \ MacsOf(new)
ChangedMacs(new, old) ==
    {mac \in MacsOf(new) \cap MacsOf(old) :
        HostOf(new.hosts, mac).ip # HostOf(old.hosts, mac).ip}
\* The states differ in hosts added, removed or given another IP only.
HostOnlyChange(new, old) ==
    /\ new.omapi_key = old.omapi_key
    /\ new.failover_peers = old.failover_peers
    /\ new.shared_networks = old.shared_networks
    /\ new.interfaces = old.interfaces
    /\ new.global_dhcp_snippets = old.global_dhcp_snippets
    /\ \A mac \in MacsOf(new) \cap MacsOf(old) :
           HostOf(new.hosts, mac).dhcp_snippets = HostOf(old.hosts, mac).dhcp_snippets
    /\ \A mac \in AddedMacs(new, old) : HostOf(new.hosts, mac).dhcp_snippets = <<>>
    /\ \A mac \in RemovedMacs(new, old) : HostOf(old.hosts, mac).dhcp_snippets = <<>>
    /\ AddedMacs(new, old) \cup RemovedMacs(new, old) \cup ChangedMacs(new, old) # {}

\* C6: when the remembered and the desired state differ only in hosts
\* added, removed or given another IP, the service was active and every
\* step of the call succeeds, configure writes the config, queries the
\* service state, calls ensureService, issues no restartService, and issues
\* one remove per removed host, one create per added host and one remove
\* directly followed by one create (with the new IP) per host whose IP
\* changed, and nothing else; the remembered state becomes the new state.
C6_HostOnlyChange ==
    \A s \in Servers :
        LET c == call[s]
            new == c.new_state
            old == c.found_state
        IN  /\ c.pc = "done" /\ ~c.stopping /\ old.kind = "state"
            /\ HostOnlyChange(new, old)
            /\ c.found_active /\ c.before_state # "off"
            /\ AllOk(c.log)
            => /\ c.result = "ok"
               /\ IsPrefix(<<"write_config", "write_interfaces", "on",
                             "getServiceState", "ensureService">>, Ops(c.log))
               /\ \A i \in 6..Len(c.log) : c.log[i].op \in HostMapOps
               /\ \A mac \in Macs :
                      /\ CountHostOp(c.log, "remove", mac)
                             = IF mac \in RemovedMacs(new, old) \cup ChangedMacs(new, old)
                               THEN 1 ELSE 0
                      /\ CountHostOp(c.log, "create", mac)
                             = IF mac \in AddedMacs(new, old) \cup ChangedMacs(new, old)
                               THEN 1 ELSE 0
                      /\ \A i \in 1..Len(c.log) :
                             c.log[i].op = "create" /\ c.log[i].mac = mac
                                 => c.log[i].ip = HostOf(new.hosts, mac).ip
                      /\ mac \in ChangedMacs(new, old) =>
                             \E i \in 1..(Len(c.log) - 1) :
                                 /\ c.log[i].op = "remove" /\ c.log[i].mac = mac
                                 /\ c.log[i + 1].op = "create" /\ c.log[i + 1].mac = mac
               /\ current_server_state[s] = new

\* An incremental update that changed the IP of one host and added another.
C6_Witness ==
    \E s \in Servers :
        /\ call[s].pc = "done" /\ call[s].result = "ok"
        /\ call[s].found_state.kind = "state"
        /\ HostOnlyChange(call[s].new_state, call[s].found_state)
        /\ ChangedMacs(call[s].new_state, call[s].found_state) # {}
        /\ AddedMacs(call[s].new_state, call[s].found_state) # {}
        /\ call[s].before_state = "on"
        /\ Len(call[s].log) = 8

\* C7: a configure call without shared networks, whatever state it finds,
\* deletes the config file if it exists, marks the service off and calls
\* ensureService, in this order and stopping at the first step that fails;
\* it writes no config, issues no restart and makes no host map call; it
\* succeeds exactly when these steps did, and then the remembered state is
\* None, the config file is gone and the service is off and stopped.
C7_StopCase ==
    \A s \in Servers :
        LET c == call[s]
            steps == (IF c.found_config THEN <<"delete_config">> ELSE <<>>)
                         \o <<"off", "ensureService">>
        IN  c.pc # "idle" /\ c.stopping =>
                /\ IsPrefix(Ops(c.log), steps)
                /\ AllButLastOk(c.log)
                /\ c.pc = "done" =>
                       /\ c.result = "ok" <=> (Len(c.log) = Len(steps) /\ AllOk(c.log))
                       /\ c.result = "ok" =>
                              /\ current_server_state[s] = None
                              /\ ~config_exists[s]
                              /\ ~service[s].on /\ ~service[s].active

\* A configured and running service was stopped and its config deleted.
C7_Witness ==
    \E s \in Servers :
        /\ call[s].pc = "done" /\ call[s].result = "ok"
        /\ call[s].stopping
        /\ call[s].found_state.kind = "state"
        /\ call[s].found_config /\ call[s].found_active
        /\ Ops(call[s].log) = <<"delete_config", "off", "ensureService">>
        /\ current_server_state[s] = None

\* C8: when a host map call fails, whether the first or a later one, no
\* further host map call is made and exactly one restartService follows;
\* when that restart succeeds the call succeeds and the remembered state
\* is the whole desired state.
C8_UpdateFallback ==
    \A s \in Servers :
        LET c == call[s]
        IN  \A i \in 1..Len(c.log) :
                c.log[i].op \in HostMapOps /\ ~c.log[i].ok =>
                    /\ c.pc \in {"fallback_restart", "done"}
                    /\ c.pc = "fallback_restart" => Len(c.log) = i
                    /\ c.pc = "done" =>
                           /\ Len(c.log) = i + 1
                           /\ c.log[i + 1].op = "restartService"
                           /\ CountOp(c.log, "restartService") = 1
                           /\ c.log[i + 1].ok =>
                                  /\ c.result = "ok"
                                  /\ current_server_state[s] = c.new_state

\* A host map call failed after an earlier one had succeeded, and the
\* fallback restart made the call succeed.
C8_Witness ==
    \E s \in Servers :
        LET c == call[s]
        IN  /\ c.pc = "done" /\ c.result = "ok"
            /\ \E i \in 2..Len(c.log) :
                   /\ c.log[i].op \in HostMapOps /\ ~c.log[i].ok
                   /\ c.log[i - 1].op \in HostMapOps /\ c.log[i - 1].ok
            /\ current_server_state[s] = c.new_state
            /\ c.new_state # c.found_state

\* C9: after a configure call that reports a failure, in the stop case or
\* the configure case and whatever step failed, the remembered state is the
\* one the call found.
C9_StateAdvancesOnlyOnSuccess ==
    \A s \in Servers :
        call[s].pc = "done" /\ call[s].result # "ok"
            => current_server_state[s] = call[s].found_state

\* A stop of a configured service failed in ensureService and the
\* remembered state is still the configured one.
C9_Witness ==
    \E s \in Servers :
        /\ call[s].pc = "done" /\ call[s].result = "CannotConfigureDHCP"
        /\ call[s].stopping
        /\ call[s].found_state.kind = "state"
        /\ current_server_state[s] = call[s].found_state

StructuralHostLists ==
    {<<>>} \cup {<<[mac |-> 1, ip |-> ip, dhcp_snippets |-> <<>>]>> : ip \in Ips}

\* The arguments of configure: those of one network, with at most one of
\* the structural fields changed.
BaseInput ==
    [omapi_key |-> 1, failover_peers |-> <<>>, shared_networks |-> <<Named(1)>>,
     hosts |-> <<>>, interfaces |-> <<Named(1)>>, global_dhcp_snippets |-> <<>>]

StructuralVariants ==
    {BaseInput,
     [BaseInput EXCEPT !.omapi_key = 2],
     [BaseInput EXCEPT !.failover_peers = <<Named(1)>>],
     [BaseInput EXCEPT !.shared_networks = <<Named(1), Named(2)>>],
     [BaseInput EXCEPT !.interfaces = <<Named(2), Named(1)>>],
     [BaseInput EXCEPT !.global_dhcp_snippets = <<Snippet(1)>>]}

StructuralInputs ==
    {[base EXCEPT !.hosts = hosts] :
        base \in StructuralVariants, hosts \in StructuralHostLists}
    \cup {[BaseInput EXCEPT !.shared_networks = <<>>]}

RestartNext ==
    \/ \E input \in StructuralInputs :
           Configure("dhcpd", input) /\ UNCHANGED <<tftp_vars, reader_vars, pure_vars, listener_vars, sharing_vars, method_vars, cluster_vars, history_vars>>
    \/ \E ok \in BOOLEAN :
           DeleteConfig("dhcpd", ok) /\ UNCHANGED <<tftp_vars, reader_vars, pure_vars, listener_vars, sharing_vars, method_vars, cluster_vars, history_vars>>
    \/ \E outcome \in ServiceOutcomes :
           StopService("dhcpd", outcome) /\ UNCHANGED <<tftp_vars, reader_vars, pure_vars, listener_vars, sharing_vars, method_vars, cluster_vars, history_vars>>
    \/ \E outcome \in {"ok", "config_fails", "interfaces_fails"} :
           WriteConfig("dhcpd", outcome) /\ UNCHANGED <<tftp_vars, reader_vars, pure_vars, listener_vars, sharing_vars, method_vars, cluster_vars, history_vars>>
    \/ \E outcome \in ServiceOutcomes :
           RestartService("dhcpd", outcome) /\ UNCHANGED <<tftp_vars, reader_vars, pure_vars, listener_vars, sharing_vars, method_vars, cluster_vars, history_vars>>
    \/ \E outcome \in ServiceOutcomes :
           EnsureService("dhcpd", outcome) /\ UNCHANGED <<tftp_vars, reader_vars, pure_vars, listener_vars, sharing_vars, method_vars, cluster_vars, history_vars>>
    \/ \E outcome \in ServiceOutcomes :
           GetServiceState("dhcpd", outcome) /\ UNCHANGED <<tftp_vars, reader_vars, pure_vars, listener_vars, sharing_vars, method_vars, cluster_vars, history_vars>>
    \/ \E outcome \in ServiceOutcomes :
           EnsureThenUpdate("dhcpd", outcome) /\ UNCHANGED <<tftp_vars, reader_vars, pure_vars, listener_vars, sharing_vars, method_vars, cluster_vars, history_vars>>
    \/ \E failing \in 0..2 :
           UpdateHosts("dhcpd", failing) /\ UNCHANGED <<tftp_vars, reader_vars, pure_vars, listener_vars, sharing_vars, method_vars, cluster_vars, history_vars>>
    \/ \E outcome \in ServiceOutcomes :
           FallbackRestart("dhcpd", outcome) /\ UNCHANGED <<tftp_vars, reader_vars, pure_vars, listener_vars, sharing_vars, method_vars, cluster_vars, history_vars>>
    \/ CallEnds("dhcpd") /\ UNCHANGED <<tftp_vars, reader_vars, pure_vars, listener_vars, sharing_vars, method_vars, cluster_vars, history_vars>>
    \/ ServiceDies("dhcpd") /\ UNCHANGED <<tftp_vars, reader_vars, pure_vars, listener_vars, sharing_vars, method_vars, cluster_vars, history_vars>>

SpecRestart == InitDHCP /\ [][RestartNext]_vars

Range(seq) == {seq[i] : i \in 1..Len(seq)}

\* The desired state differs from the remembered one in the OMAPI key or in
\* the set of failover peers, shared networks, interfaces or global snippets.
StructuralChange(new, old) ==
    \/ new.omapi_key # old.omapi_key
    \/ Range(new.failover_peers) # Range(old.failover_peers)
    \/ Range(new.shared_networks) # Range(old.shared_networks)
    \/ Range(new.interfaces) # Range(old.interfaces)
    \/ Range(new.global_dhcp_snippets) # Range(old.global_dhcp_snippets)

\* C11: a configure call with a shared network that finds a remembered
\* state differing from the desired one in a structural field writes the
\* config, marks the service on and goes on to one restartService; it makes
\* no host map call and no service state query, whatever the hosts of the
\* two states are; when the restart succeeds the desired state is
\* remembered.
C11_StructuralChangeRestarts ==
    \A s \in Servers :
        LET c == call[s]
        IN  /\ c.pc # "idle" /\ ~c.stopping /\ c.found_state.kind = "state"
            /\ StructuralChange(c.new_state, c.found_state)
            => /\ IsPrefix(Ops(c.log), <<"write_config", "write_interfaces", "on",
                                         "restartService">>)
               /\ AllButLastOk(c.log)
               /\ c.pc \in {"write_config", "restart", "done"}
               /\ c.pc = "restart" => Len(c.log) = 3
               /\ c.pc = "done" =>
                      /\ c.result = "ok" <=> (Len(c.log) = 4 /\ AllOk(c.log))
                      /\ c.result = "ok" => current_server_state[s] = c.new_state

\* The interfaces changed and so did the address of the host: the service
\* was restarted and no host map call was made.
C11_Witness ==
    \E s \in Servers :
        LET c == call[s]
        IN  /\ c.pc = "done" /\ c.result = "ok"
            /\ c.found_state.kind = "state"
            /\ c.new_state.omapi_key = c.found_state.omapi_key
            /\ c.new_state.interfaces # c.found_state.interfaces
            /\ ChangedMacs(c.new_state, c.found_state) # {}
            /\ Ops(c.log) = <<"write_config", "write_interfaces", "on", "restartService">>

(***************************************************************************)
(* DHCPState as a function of its arguments: two argument lists are made   *)
(* into states and the states are compared as configure compares them.     *)
(***************************************************************************)
\* A snippet dict with a name and a value of its own.
SnippetOf(name, value) == [name |-> name, value |-> value]

\* Argument lists in both orders, with repeated names and without.
PeerLists == {<<>>, <<Named(1), Named(2)>>, <<Named(2), Named(1)>>}
NetworkLists == {<<Named(1)>>, <<Named(1), Named(2)>>, <<Named(2), Named(1)>>}
InterfaceLists ==
    {<<Named(1)>>, <<Named(1), Named(1)>>, <<Named(1), Named(2)>>, <<Named(2), Named(1)>>}
GlobalSnippetLists ==
    {<<>>,
     <<SnippetOf(1, 1), SnippetOf(2, 2)>>, <<SnippetOf(2, 2), SnippetOf(1, 1)>>,
     <<SnippetOf(1, 1), SnippetOf(1, 2)>>, <<SnippetOf(1, 2), SnippetOf(1, 1)>>}

\* Two hosts in both orders; each may carry a snippet, and the two hosts may
\* carry different snippets of one name.
HostWith(mac, snippets) == [mac |-> mac, ip |-> 1, dhcp_snippets |-> snippets]
HostPairs ==
    {<<HostWith(1, x), HostWith(2, y)>> : x, y \in {<<>>, <<SnippetOf(1, 1)>>}}
    \cup {<<HostWith(1, <<SnippetOf(1, 1)>>), HostWith(2, <<SnippetOf(1, 2)>>)>>}
Reversed(seq) == [i \in 1..Len(seq) |-> seq[Len(seq) + 1 - i]]
PairedHostLists == {<<>>} \cup HostPairs \cup {Reversed(hosts) : hosts \in HostPairs}

StateArgs ==
    [omapi_key : {1},
     failover_peers : PeerLists,
     shared_networks : NetworkLists,
     hosts : PairedHostLists,
     interfaces : InterfaceLists,
     global_dhcp_snippets : GlobalSnippetLists]

\* The argument lists that differ from `a` in at most one argument.
OneArgumentChanged(a) ==
    {a}
    \cup {[a EXCEPT !.failover_peers = x] : x \in PeerLists}
    \cup {[a EXCEPT !.shared_networks = x] : x \in NetworkLists}
    \cup {[a EXCEPT !.hosts = x] : x \in PairedHostLists}
    \cup {[a EXCEPT !.interfaces = x] : x \in InterfaceLists}
    \cup {[a EXCEPT !.global_dhcp_snippets = x] : x \in GlobalSnippetLists}

StateOf(a) ==
    DHCPState(a.omapi_key, a.failover_peers, a.shared_networks, a.hosts,
              a.interfaces, a.global_dhcp_snippets)

\* dict.__eq__ on the hosts of two states: the same MACs with equal hosts.
DictEq(hosts, other_hosts) ==
    /\ \A i \in 1..Len(hosts) :
           /\ HasMac(other_hosts, hosts[i].mac)
           /\ HostOf(other_hosts, hosts[i].mac) = hosts[i]
    /\ \A i \in 1..Len(other_hosts) : HasMac(hosts, other_hosts[i].mac)

\* DHCPStateBase.__eq__: the namedtuple's fields compared one by one.
StateEq(self, other_state) ==
    /\ self.omapi_key = other_state.omapi_key
    /\ self.failover_peers = other_state.failover_peers
    /\ self.shared_networks = other_state.shared_networks
    /\ DictEq(self.hosts, other_state.hosts)
    /\ self.interfaces = other_state.interfaces
    /\ self.global_dhcp_snippets = other_state.global_dhcp_snippets


StateInit ==
    /\ TFTPInit /\ live = Clients
    /\ DHCPInit
    /\ \A s \in Servers : ~service[s].active /\ ~config_exists[s]
    /\ reader = NoReader /\ image_lookup = NoLookup
    /\ NoListeners /\ NoSharing
    /\ boot_method_search = NoSearch /\ NoClusters /\ NoHistory
    /\ \E a \in StateArgs : \E b \in OneArgumentChanged(a) :
           state_pair = [done |-> FALSE, a |-> a, b |-> b]

\* The remembered state is made from b, the desired state from a, and
\* configure's questions are asked of them.
CompareStates ==
    /\ ~state_pair.done
    /\ LET self == StateOf(state_pair.a)
           other_state == StateOf(state_pair.b)
       IN  state_pair' =
               [done |-> TRUE, a |-> state_pair.a, b |-> state_pair.b,
                self |-> self, other_state |-> other_state,
                equal |-> StateEq(self, other_state),
                restart |-> requires_restart(self, other_state),
                diff |-> host_diff(self, other_state),
                interfaces_file |-> interfaces_config(self)]
    /\ UNCHANGED <<tftp_vars, dhcp_vars, reader_vars, image_lookup, listener_vars, sharing_vars, method_vars, cluster_vars, history_vars>>

StateNext == CompareStates

SpecState == StateInit /\ [][StateNext]_vars

\* The snippets assigned to each host of an argument list.
SnippetAssignment(hosts) ==
    UNION {{<<hosts[i].mac, snippet>> : snippet \in Range(hosts[i].dhcp_snippets)} :
              i \in 1..Len(hosts)}

\* C12: of two states equal in key, failover peers, shared networks,
\* interfaces and global snippets, whose hosts are assigned snippets
\* differently (a snippet added to a host, removed from one or moved to
\* another), requires_restart says that a restart is needed.
C12_SnippetAssignmentChangeRestarts ==
    state_pair.done =>
        LET self == state_pair.self
            other_state == state_pair.other_state
        IN  /\ self.omapi_key = other_state.omapi_key
            /\ self.failover_peers = other_state.failover_peers
            /\ self.shared_networks = other_state.shared_networks
            /\ self.interfaces = other_state.interfaces
            /\ self.global_dhcp_snippets = other_state.global_dhcp_snippets
            /\ SnippetAssignment(state_pair.a.hosts) # SnippetAssignment(state_pair.b.hosts)
            => state_pair.restart

Occurrences(seq, x) == Cardinality({i \in 1..Len(seq) : seq[i] = x})
IsPermutation(seq, other) ==
    /\ Len(seq) = Len(other)
    /\ \A x \in Range(seq) \cup Range(other) : Occurrences(seq, x) = Occurrences(other, x)
NoDiff == [remove |-> <<>>, add |-> <<>>, modify |-> <<>>]

\* C19: two argument lists of which each list of the one is a permutation
\* of that list of the other give states that compare equal, between which
\* no restart is required and no host differs.
C19_PermutationsGiveEqualStates ==
    state_pair.done =>
        LET a == state_pair.a
            b == state_pair.b
        IN  /\ a.omapi_key = b.omapi_key
            /\ IsPermutation(a.failover_peers, b.failover_peers)
            /\ IsPermutation(a.shared_networks, b.shared_networks)
            /\ IsPermutation(a.hosts, b.hosts)
            /\ IsPermutation(a.interfaces, b.interfaces)
            /\ IsPermutation(a.global_dhcp_snippets, b.global_dhcp_snippets)
            => /\ state_pair.equal
               /\ ~state_pair.restart
               /\ state_pair.diff = NoDiff

NoRepeats(seq) == \A i, j \in 1..Len(seq) : seq[i] = seq[j] => i = j

\* C20: the interfaces of a state and the interfaces file name each
\* interface once, and two argument lists that differ only in how often an
\* interface is repeated give equal states between which no restart is
\* required.
C20_InterfacesDeduplicated ==
    state_pair.done =>
        /\ NoRepeats(state_pair.self.interfaces)
        /\ NoRepeats(state_pair.interfaces_file)
        /\ LET a == state_pair.a
               b == state_pair.b
           IN  /\ [a EXCEPT !.interfaces = <<>>] = [b EXCEPT !.interfaces = <<>>]
               /\ Range(a.interfaces) = Range(b.interfaces)
               => state_pair.equal /\ ~state_pair.restart

(***************************************************************************)
(* provisioningserver/rackdservices/tftp.py: get_boot_image (module level) *)
(***************************************************************************)
\* Longest list of boot images on the rack controller.
MaxImages == 2

\* Values of the fields of a boot image and of a request.
OSystems == {"ubuntu", "centos"}
Releases == {"focal"}
Architectures == {"amd64"}
Subarches == {"generic", "hwe"}
\* image["supported_subarches"]: a comma-separated string, kept as the
\* sequence of its fields; the empty string (and a missing key) is <<>>.
SupportedSubarches == {<<>>, <<"hwe">>, <<"generic", "hwe">>}
ImagePurposes == {"commissioning", "enlist"}

\* get_boot_image returns None.
NoImage == [osystem |-> "none"]

\* str.split(","): the fields of the string; the empty string has one
\* field, the empty one.
SplitCommas(str) == IF str = <<>> THEN <<"">> ELSE str

\* get_boot_image as it would be without the treatment of enlist.
get_boot_image_purpose_as_given(boot_images, osystem, release, architecture, subarchitecture, purpose, skip_subarchitecture_check) ==
    LET matching == SelectSeq(boot_images, LAMBDA image :
                        /\ image.osystem = osystem
                        /\ image.release = release
                        /\ image.architecture = architecture
                        /\ image.purpose = purpose)
        exact == SelectSeq(matching, LAMBDA image : image.subarchitecture = subarchitecture)
        supporting == SelectSeq(matching, LAMBDA image :
                          \E i \in 1..Len(SplitCommas(image.supported_subarches)) :
                              SplitCommas(image.supported_subarches)[i] = subarchitecture)
    IN  IF matching = <<>> THEN NoImage
        ELSE IF skip_subarchitecture_check THEN Head(matching)
        ELSE IF exact # <<>> THEN Head(exact)
        ELSE IF supporting # <<>> THEN Head(supporting)
        ELSE NoImage

\* get_boot_image as it would be with one loop that takes the first image
\* that is an exact match or supports the subarchitecture.
get_boot_image_one_pass(boot_images, osystem, release, architecture, subarchitecture, purpose, skip_subarchitecture_check) ==
    LET wanted == IF purpose = "enlist" THEN "commissioning" ELSE purpose
        matching == SelectSeq(boot_images, LAMBDA image :
                        /\ image.osystem = osystem
                        /\ image.release = release
                        /\ image.architecture = architecture
                        /\ image.purpose = wanted)
        usable == SelectSeq(matching, LAMBDA image :
                      \/ image.subarchitecture = subarchitecture
                      \/ \E i \in 1..Len(SplitCommas(image.supported_subarches)) :
                             SplitCommas(image.supported_subarches)[i] = subarchitecture)
    IN  IF matching = <<>> THEN NoImage
        ELSE IF skip_subarchitecture_check THEN Head(matching)
        ELSE IF usable # <<>> THEN Head(usable)
        ELSE NoImage

\* get_boot_image as it would be if the subarchitecture were checked
\* whatever skip_subarchitecture_check is.
get_boot_image_never_skips(boot_images, osystem, release, architecture, subarchitecture, purpose, skip_subarchitecture_check) ==
    LET wanted == IF purpose = "enlist" THEN "commissioning" ELSE purpose
        matching == SelectSeq(boot_images, LAMBDA image :
                        /\ image.osystem = osystem
                        /\ image.release = release
                        /\ image.architecture = architecture
                        /\ image.purpose = wanted)
        exact == SelectSeq(matching, LAMBDA image : image.subarchitecture = subarchitecture)
        supporting == SelectSeq(matching, LAMBDA image :
                          \E i \in 1..Len(SplitCommas(image.supported_subarches)) :
                              SplitCommas(image.supported_subarches)[i] = subarchitecture)
    IN  IF matching = <<>> THEN NoImage
        ELSE IF exact # <<>> THEN Head(exact)
        ELSE IF supporting # <<>> THEN Head(supporting)
        ELSE NoImage

\* get_boot_image(osystem, release, architecture, subarchitecture, purpose,
\* skip_subarchitecture_check), with the result of list_boot_images() as
\* its first argument.
get_boot_image(boot_images, osystem, release, architecture, subarchitecture, purpose, skip_subarchitecture_check) ==
    LET wanted == IF purpose = "enlist" THEN "commissioning" ELSE purpose
        matching == SelectSeq(boot_images, LAMBDA image :
                        /\ image.osystem = osystem
                        /\ image.release = release
                        /\ image.architecture = architecture
                        /\ image.purpose = wanted)
        exact == SelectSeq(matching, LAMBDA image : image.subarchitecture = subarchitecture)
        supporting == SelectSeq(matching, LAMBDA image :
                          \E i \in 1..Len(SplitCommas(image.supported_subarches)) :
                              SplitCommas(image.supported_subarches)[i] = subarchitecture)
    IN  IF matching = <<>> THEN NoImage
        ELSE IF skip_subarchitecture_check THEN Head(matching)
        ELSE IF exact # <<>> THEN Head(exact)
        ELSE IF supporting # <<>> THEN Head(supporting)
        ELSE NoImage

BootImages ==
    [osystem : OSystems, release : Releases, architecture : Architectures,
     subarchitecture : Subarches, supported_subarches : SupportedSubarches,
     purpose : ImagePurposes, label : {"stable"}]

\* list_boot_images(): the images in the order the rack controller lists them.
Catalogs == UNION {[1..n -> BootImages] : n \in 0..MaxImages}

ImageInit ==
    /\ TFTPInit /\ live = Clients
    /\ DHCPInit
    /\ \A s \in Servers : ~service[s].active /\ ~config_exists[s]
    /\ reader = NoReader /\ state_pair = NoPair
    /\ NoListeners /\ NoSharing
    /\ boot_method_search = NoSearch /\ NoClusters /\ NoHistory
    /\ image_lookup \in
           [done : {FALSE}, boot_images : Catalogs, osystem : {"ubuntu"},
            release : Releases, architecture : Architectures,
            subarchitecture : Subarches, purpose : ImagePurposes,
            skip_subarchitecture_check : BOOLEAN, result : {NoImage}]

\* One call of get_boot_image.
GetBootImage ==
    /\ ~image_lookup.done
    /\ image_lookup' =
           [image_lookup EXCEPT
               !.done = TRUE,
               !.result = get_boot_image(image_lookup.boot_images, image_lookup.osystem,
                              image_lookup.release, image_lookup.architecture,
                              image_lookup.subarchitecture, image_lookup.purpose,
                              image_lookup.skip_subarchitecture_check)]
    /\ UNCHANGED <<tftp_vars, dhcp_vars, reader_vars, state_pair, listener_vars, sharing_vars, method_vars, cluster_vars, history_vars>>

ImageNext == GetBootImage

SpecImage == ImageInit /\ [][ImageNext]_vars

\* The positions of the images that match the request in operating system,
\* release, architecture and purpose (enlist asking for commissioning).
Candidates(q) ==
    {i \in 1..Len(q.boot_images) :
        /\ q.boot_images[i].osystem = q.osystem
        /\ q.boot_images[i].release = q.release
        /\ q.boot_images[i].architecture = q.architecture
        /\ q.boot_images[i].purpose =
               IF q.purpose = "enlist" THEN "commissioning" ELSE q.purpose}
ExactMatches(q) ==
    {i \in Candidates(q) : q.boot_images[i].subarchitecture = q.subarchitecture}
SupportingMatches(q) ==
    {i \in Candidates(q) :
        q.subarchitecture \in Range(q.boot_images[i].supported_subarches)}
First(positions) == CHOOSE i \in positions : \A j \in positions : i <= j

\* C16: with the subarchitecture check not skipped, get_boot_image returns
\* the first candidate whose subarchitecture is the requested one if there
\* is one, even behind a candidate that supports the requested
\* subarchitecture; else the first candidate whose supported_subarches
\* contain it; else None.
C16_ExactBeforeSupported ==
    image_lookup.done /\ ~image_lookup.skip_subarchitecture_check =>
        IF ExactMatches(image_lookup) # {}
        THEN /\ image_lookup.result = image_lookup.boot_images[First(ExactMatches(image_lookup))]
             /\ image_lookup.result.subarchitecture = image_lookup.subarchitecture
        ELSE IF SupportingMatches(image_lookup) # {}
        THEN image_lookup.result =
                 image_lookup.boot_images[First(SupportingMatches(image_lookup))]
        ELSE image_lookup.result = NoImage

\* The first image supports the requested subarchitecture, the second has
\* it: the second was returned.
C16_Witness ==
    /\ image_lookup.done /\ ~image_lookup.skip_subarchitecture_check
    /\ Len(image_lookup.boot_images) = 2
    /\ SupportingMatches(image_lookup) = {1, 2} \/ SupportingMatches(image_lookup) = {1}
    /\ ExactMatches(image_lookup) = {2}
    /\ image_lookup.result = image_lookup.boot_images[2]
    /\ image_lookup.boot_images[1] # image_lookup.boot_images[2]

\* C17: a request with purpose enlist gets what the same request with
\* purpose commissioning gets, which is never an image of purpose enlist.
C17_EnlistUsesCommissioning ==
    image_lookup.done /\ image_lookup.purpose = "enlist" =>
        /\ image_lookup.result =
               get_boot_image(image_lookup.boot_images, image_lookup.osystem,
                   image_lookup.release, image_lookup.architecture,
                   image_lookup.subarchitecture, "commissioning",
                   image_lookup.skip_subarchitecture_check)
        /\ image_lookup.result # NoImage => image_lookup.result.purpose = "commissioning"
        /\ Candidates(image_lookup) = {} => image_lookup.result = NoImage

\* An enlist request passed over an image of purpose enlist and got the
\* commissioning image behind it.
C17_Witness ==
    /\ image_lookup.done /\ image_lookup.purpose = "enlist"
    /\ Len(image_lookup.boot_images) = 2
    /\ image_lookup.boot_images[1].purpose = "enlist"
    /\ image_lookup.boot_images[1].osystem = image_lookup.osystem
    /\ image_lookup.boot_images[1].subarchitecture = image_lookup.subarchitecture
    /\ image_lookup.result = image_lookup.boot_images[2]

(***************************************************************************)
(* provisioningserver/rackdservices/tftp.py: TFTPBackend.get_reader and    *)
(* what it calls, for one request at a time.                               *)
(***************************************************************************)
\* File names as they are requested: a generated configuration, with "/"
\* and with "\", and a file that no boot method knows.
RequestedFiles == {"grub/grub.cfg", "grub\\grub.cfg", "lpxelinux.0"}

\* file_name.replace(b"\\", b"/")
NormalisedPath(file_name) ==
    IF file_name = "grub\\grub.cfg" THEN "grub/grub.cfg" ELSE file_name

\* get_boot_method: whether a method of the BootMethodRegistry matches.
MatchesAlways(file_name) == TRUE

Matches(file_name) == file_name = "grub/grub.cfg"

\* Failures: the exception's type and message; `detail` is what a
\* BackendError made from the message no longer carries.
Failure(type, message) == [type |-> type, message |-> message, detail |-> TRUE]
\* tftp.errors: FileNotFound and AccessViolation are BackendErrors.
BackendErrors == {"BackendError", "FileNotFound", "AccessViolation"}
\* What the steps outside this module can raise.
RaisedTypes == {"BootConfigNoResponse", "Exception", "FileNotFound", "BackendError"}

\* TFTPBackend.no_response_errback
no_response_errback_passes(failure, file_name) == failure

no_response_errback(failure, file_name) ==
    IF failure.type = "BootConfigNoResponse"
    THEN Failure("FileNotFound", file_name)
    ELSE failure

\* TFTPBackend.all_is_lost_errback: the failure that goes on and whether it
\* was logged as "TFTP back-end failed."
all_is_lost_errback(failure) ==
    IF failure.type \in BackendErrors
    THEN [failure |-> failure, logged |-> FALSE]
    ELSE [failure |-> [type |-> "BackendError", message |-> failure.message,
                       detail |-> FALSE],
          logged |-> TRUE]

\* The Deferred of get_reader fires with a reader.
Served(rd) ==
    [rd EXCEPT !.stage = "done", !.result = [kind |-> "reader"]]

\* A failure in the chain built by get_reader: it passes the two errbacks.
Failed(rd, failure) ==
    LET lost == all_is_lost_errback(no_response_errback(failure, rd.file_name))
    IN  [rd EXCEPT !.stage = "done", !.raised = failure,
                   !.result = [kind |-> "failure", failure |-> lost.failure],
                   !.lost_logged = lost.logged]

\* get_reader(file_name, skip_logging): the path is normalised, the request
\* is logged and get_boot_method is started.  What is raised before the
\* chain is built leaves get_reader as it is.
GetReader(file_name, skip_logging, outcome) ==
    /\ reader.stage = "idle"
    /\ outcome = "log_request_raises" => ~skip_logging
    /\ reader' =
           IF outcome = "replace_raises"
           THEN [NoReader EXCEPT
                    !.stage = "done", !.file_name = file_name,
                    !.raised = Failure("Exception", "replace"),
                    !.result = [kind |-> "failure",
                                failure |-> Failure("Exception", "replace")]]
           ELSE IF outcome = "log_request_raises"
           THEN [NoReader EXCEPT
                    !.stage = "done", !.file_name = NormalisedPath(file_name),
                    !.raised = Failure("Exception", "log_request"),
                    !.result = [kind |-> "failure",
                                failure |-> Failure("Exception", "log_request")]]
           ELSE [NoReader EXCEPT
                    !.stage = "match", !.file_name = NormalisedPath(file_name),
                    !.request_logged = ~skip_logging]
    /\ UNCHANGED <<tftp_vars, dhcp_vars, pure_vars, listener_vars, sharing_vars, method_vars, cluster_vars, history_vars>>

\* get_boot_method fails: a match_path raised.
MatchPathRaises(type) ==
    /\ reader.stage = "match"
    /\ reader' = Failed(reader, Failure(type, "match_path"))
    /\ UNCHANGED <<tftp_vars, dhcp_vars, pure_vars, listener_vars, sharing_vars, method_vars, cluster_vars, history_vars>>

\* handle_boot_method with no boot method: super().get_reader(file_name),
\* the read from the filesystem, which gives a reader or fails.
NoBootMethod(outcome) ==
    /\ reader.stage = "match"
    /\ ~Matches(reader.file_name)
    /\ reader' =
           IF outcome = "reader"
           THEN Served([reader EXCEPT !.fs_read = TRUE])
           ELSE Failed([reader EXCEPT !.fs_read = TRUE], Failure(outcome, "filesystem"))
    /\ UNCHANGED <<tftp_vars, dhcp_vars, pure_vars, listener_vars, sharing_vars, method_vars, cluster_vars, history_vars>>

\* handle_boot_method with a boot method raises before get_kernel_params
\* (the architecture registry, the addresses of the request).
HandleBootMethodRaises ==
    /\ reader.stage = "match"
    /\ Matches(reader.file_name)
    /\ reader' = Failed(reader, Failure("Exception", "handle_boot_method"))
    /\ UNCHANGED <<tftp_vars, dhcp_vars, pure_vars, listener_vars, sharing_vars, method_vars, cluster_vars, history_vars>>

\* handle_boot_method with a boot method: get_boot_method_reader, that is
\* get_kernel_params for the remote address of the request.
BootMethodMatches(ip, args) ==
    /\ reader.stage = "match"
    /\ Matches(reader.file_name)
    /\ GetKernelParams(1, ip, args)
    /\ reader' = [reader EXCEPT !.stage = "kernel_params"]
    /\ UNCHANGED <<dhcp_vars, pure_vars, listener_vars, sharing_vars, method_vars, cluster_vars, history_vars>>

\* getClientNow fires with a client: store_client and fetch.
ReaderClientDelivered(client) ==
    /\ reader.stage = "kernel_params"
    /\ ClientDelivered(1, client)
    /\ UNCHANGED <<reader_vars, dhcp_vars, pure_vars, listener_vars, sharing_vars, method_vars, cluster_vars, history_vars>>

\* getClientNow fails.
ReaderClientUnavailable ==
    /\ reader.stage = "kernel_params"
    /\ ClientUnavailable(1)
    /\ reader' = Failed(reader, Failure("Exception", "no_client"))
    /\ UNCHANGED <<dhcp_vars, pure_vars, listener_vars, sharing_vars, method_vars, cluster_vars, history_vars>>

\* The GetBootConfig call fails: no response from the region, or another
\* error.
ReaderRpcFails(type) ==
    /\ reader.stage = "kernel_params"
    /\ req[1].pc = "wait_rpc"
    /\ RpcCompletes(req[1].call, type)
    /\ reader' = Failed(reader, Failure(type, "GetBootConfig"))
    /\ UNCHANGED <<dhcp_vars, pure_vars, listener_vars, sharing_vars, method_vars, cluster_vars, history_vars>>

\* The response to GetBootConfig has no system_id: the machine is unknown.
NoSystemId == "none"

\* The error_description of MarkNodeFailed and the enlistment error name
\* the image that is missing.
MissingImage(osystem, arch, subarch, release, is_kernel_image) ==
    [kind |-> IF is_kernel_image THEN "kernel" ELSE "boot",
     osystem |-> osystem, arch |-> arch, subarch |-> subarch, release |-> release]

\* TFTPBackend._handle_image_not_found: the MarkNodeFailed calls it sends
\* on the client and the errors it logs.
handle_image_not_found_marks_all(osystem, arch, subarch, release, system_id, remote_ip, client, is_kernel_image) ==
    [marks |-> <<[client |-> client, system_id |-> system_id,
                  error_description |->
                      MissingImage(osystem, arch, subarch, release, is_kernel_image)]>>,
     errors |-> <<>>]

handle_image_not_found(osystem, arch, subarch, release, system_id, remote_ip, client, is_kernel_image) ==
    IF system_id # NoSystemId
    THEN [marks |-> <<[client |-> client, system_id |-> system_id,
                       error_description |->
                           MissingImage(osystem, arch, subarch, release, is_kernel_image)]>>,
          errors |-> <<>>]
    ELSE [marks |-> <<>>,
          errors |-> <<[remote_ip |-> remote_ip,
                        image |-> MissingImage(osystem, arch, subarch, release,
                                               is_kernel_image)]>>]

NothingMissing == [marks |-> <<>>, errors |-> <<>>]

\* The arguments of one call of get_boot_image.
Lookup(osystem, release, architecture, subarchitecture, purpose, skip_subarchitecture_check) ==
    [osystem |-> osystem, release |-> release, architecture |-> architecture,
     subarchitecture |-> subarchitecture, purpose |-> purpose,
     skip_subarchitecture_check |-> skip_subarchitecture_check]

\* skip_subarchitecture_check of the lookup of the boot image.
boot_skip_subarchitecture_check_never(params) == FALSE

boot_skip_subarchitecture_check(params) == params.osystem # params.kernel_osystem

\* params["purpose"] after the test for a device that boots over PXE.
rewritten_purpose_as_given(params) == params.purpose

rewritten_purpose(params) ==
    IF params.purpose = "local-device" THEN "local" ELSE params.purpose

\* params["xinstall_path"] when get_boot_image has not assigned it.
NotAssigned == "not assigned"

\* TFTPBackend.get_boot_image(params, client, remote_ip), with the result
\* of list_boot_images() as its last argument: the purpose, the labels and
\* the install path put into params, what _handle_image_not_found did, and
\* the calls of get_boot_image made, in their order.  The images of the
\* model have no xinstall_path: boot_image.get("xinstall_path", "") is "".
backend_get_boot_image(params, client, remote_ip, boot_images) ==
    LET purpose == rewritten_purpose(params)
        kernel_image == get_boot_image(boot_images, params.kernel_osystem,
                            params.kernel_release, params.arch, params.subarch,
                            purpose, FALSE)
        boot_image == get_boot_image(boot_images, params.osystem, params.release,
                          params.arch, params.subarch, purpose,
                          boot_skip_subarchitecture_check(params))
        kernel_missing ==
            IF kernel_image = NoImage
            THEN handle_image_not_found(params.kernel_osystem, params.arch,
                     params.subarch, params.kernel_release, params.system_id,
                     remote_ip, client, TRUE)
            ELSE NothingMissing
        boot_missing ==
            IF boot_image = NoImage
            THEN handle_image_not_found(params.osystem, params.arch, params.subarch,
                     params.release, params.system_id, remote_ip, client, FALSE)
            ELSE NothingMissing
    IN  IF purpose = "local"
        THEN [kernel_label |-> "local", label |-> "local", marks |-> <<>>, errors |-> <<>>,
              lookups |-> <<>>, purpose |-> purpose, xinstall_path |-> ""]
        ELSE [kernel_label |->
                  IF kernel_image = NoImage THEN "no-such-image" ELSE kernel_image.label,
              label |-> IF boot_image = NoImage THEN "no-such-image" ELSE boot_image.label,
              marks |-> kernel_missing.marks \o boot_missing.marks,
              errors |-> kernel_missing.errors \o boot_missing.errors,
              lookups |-> <<Lookup(params.kernel_osystem, params.kernel_release,
                                   params.arch, params.subarch, purpose, FALSE),
                            Lookup(params.osystem, params.release, params.arch,
                                   params.subarch, purpose,
                                   boot_skip_subarchitecture_check(params))>>,
              purpose |-> purpose,
              xinstall_path |-> IF boot_image = NoImage THEN NotAssigned ELSE ""]

\* The responses of the region to GetBootConfig.
BootConfigs ==
    [system_id : {NoSystemId, "node-1"},
     purpose : {"local", "local-device", "commissioning"},
     osystem : OSystems, kernel_osystem : {"ubuntu"},
     release : Releases, kernel_release : Releases,
     arch : Architectures, subarch : {"generic"}]

\* What list_boot_images() holds while requests are served.
UbuntuImage ==
    [osystem |-> "ubuntu", release |-> "focal", architecture |-> "amd64",
     subarchitecture |-> "generic", supported_subarches |-> <<>>,
     purpose |-> "commissioning", label |-> "stable"]
CentosImage == [UbuntuImage EXCEPT !.osystem = "centos"]
ReaderCatalogs == {<<>>, <<UbuntuImage>>, <<CentosImage>>, <<UbuntuImage, CentosImage>>}

\* The GetBootConfig call answers: the callbacks of fetch run, that is
\* get_boot_image, KernelParameters and the boot method's get_reader,
\* which renders the configuration or raises.
ReaderRpcAnswers(params, boot_images, outcome) ==
    /\ reader.stage = "kernel_params"
    /\ req[1].pc = "wait_rpc"
    /\ RpcCompletes(req[1].call, "ok")
    /\ LET found == backend_get_boot_image(params, req[1].client, req[1].remote_ip,
                                           boot_images)
           rendering == [reader EXCEPT
                            !.response = params, !.boot_images = boot_images,
                            !.rendered = TRUE,
                            !.kernel_label = found.kernel_label,
                            !.label = found.label,
                            !.marks = found.marks,
                            !.enlistment_errors = found.errors]
       IN  reader' = IF outcome = "reader" THEN Served(rendering)
                     ELSE Failed(rendering, Failure(outcome, "render"))
    /\ UNCHANGED <<dhcp_vars, pure_vars, listener_vars, sharing_vars, method_vars, cluster_vars, history_vars>>

\* The protocol has the outcome of get_reader; the next request can come.
ReaderReturns ==
    /\ reader.stage = "done"
    /\ reader' = NoReader
    /\ req' = [req EXCEPT ![1] = FreshReq]
    /\ calls' = <<>>
    /\ UNCHANGED <<client_to_remote, live, pending, dhcp_vars, pure_vars, listener_vars, sharing_vars, method_vars, cluster_vars, history_vars>>

ReaderNext ==
    \/ \E file_name \in RequestedFiles, skip_logging \in BOOLEAN,
          outcome \in {"ok", "replace_raises", "log_request_raises"} :
           GetReader(file_name, skip_logging, outcome)
    \/ \E type \in RaisedTypes : MatchPathRaises(type)
    \/ \E outcome \in {"reader", "FileNotFound", "Exception"} : NoBootMethod(outcome)
    \/ HandleBootMethodRaises
    \/ \E ip \in RemoteIPs, args \in Args : BootMethodMatches(ip, args)
    \/ \E client \in Clients : ReaderClientDelivered(client)
    \/ ReaderClientUnavailable
    \/ \E type \in {"BootConfigNoResponse", "Exception"} : ReaderRpcFails(type)
    \/ \E params \in BootConfigs, boot_images \in ReaderCatalogs,
          outcome \in {"reader"} \cup RaisedTypes :
           ReaderRpcAnswers(params, boot_images, outcome)
    \/ ReaderReturns
    \/ \E client \in Clients :
           ClientConnects(client) /\ UNCHANGED <<dhcp_vars, reader_vars, pure_vars, listener_vars, sharing_vars, method_vars, cluster_vars, history_vars>>
    \/ \E client \in Clients :
           ClientDisconnects(client) /\ UNCHANGED <<dhcp_vars, reader_vars, pure_vars, listener_vars, sharing_vars, method_vars, cluster_vars, history_vars>>

ReaderInit ==
    /\ TFTPInit
    /\ DHCPInit
    /\ \A s \in Servers : ~service[s].active /\ ~config_exists[s]
    /\ reader = NoReader /\ image_lookup = NoLookup /\ state_pair = NoPair
    /\ NoListeners /\ NoSharing
    /\ boot_method_search = NoSearch /\ NoClusters /\ NoHistory

SpecReader == ReaderInit /\ [][ReaderNext]_vars

(***************************************************************************)
(* Properties of get_reader.                                               *)
(***************************************************************************)
\* C13: a BootConfigNoResponse raised in the dynamic pipeline (by a
\* match_path, by the GetBootConfig call or by the rendering) reaches the
\* protocol as FileNotFound for the requested file name, is not logged as
\* a back-end failure, and the request is over: no second RPC call is made.
C13_NoResponseIsFileNotFound ==
    reader.stage = "done" /\ reader.raised.type = "BootConfigNoResponse" =>
        /\ reader.result.kind = "failure"
        /\ reader.result.failure.type = "FileNotFound"
        /\ reader.result.failure.message = reader.file_name
        /\ ~reader.lost_logged
        /\ Len(calls) <= 1
        /\ req[1].pc \in {"new", "done", "failed"}

\* The region gave no response to GetBootConfig and the machine was told
\* that the file does not exist.
C13_Witness ==
    /\ reader.stage = "done"
    /\ reader.raised = Failure("BootConfigNoResponse", "GetBootConfig")
    /\ reader.result = [kind |-> "failure",
                        failure |-> Failure("FileNotFound", "grub/grub.cfg")]
    /\ Len(calls) = 1

\* C14: every failure get_reader delivers is a BackendError; one that was
\* raised as a BackendError is delivered as it was and not logged, and any
\* other exception, from any stage of the request, is logged and replaced
\* by a BackendError that carries its message only.
C14_EveryFailureIsBackendError ==
    reader.stage = "done" /\ reader.result.kind = "failure" =>
        /\ reader.result.failure.type \in BackendErrors
        /\ reader.raised.type \in BackendErrors =>
               reader.result.failure = reader.raised /\ ~reader.lost_logged
        /\ reader.raised.type = "Exception" =>
               /\ reader.lost_logged
               /\ reader.result.failure =
                      [type |-> "BackendError", message |-> reader.raised.message,
                       detail |-> FALSE]

\* C15: a request for a file that no boot method matches is answered by
\* the read from the filesystem, with its reader or its failure: in that
\* step no client is resolved, the affinity map, the fetcher and the RPC
\* calls stay as they are, and no image is looked up.
C15_NoMatchReadsFilesystem ==
    [][/\ reader.stage = "match" /\ reader.file_name = "lpxelinux.0"
       /\ reader' # reader /\ reader'.raised.message # "match_path"
       => /\ reader'.stage = "done"
          /\ reader'.fs_read
          /\ reader'.result.kind = "reader" \/ reader'.raised.message = "filesystem"
          /\ ~reader'.rendered /\ reader'.marks = <<>>
          /\ reader'.kernel_label = "" /\ reader'.label = ""
          /\ UNCHANGED tftp_vars
          /\ req[1] = FreshReq /\ calls = <<>>]_vars

\* A static file was served from the filesystem while a client was stored
\* for a machine from an earlier request.
C15_Witness ==
    /\ reader.stage = "done" /\ reader.file_name = "lpxelinux.0"
    /\ reader.fs_read /\ reader.result.kind = "reader"
    /\ \E ip \in RemoteIPs : client_to_remote[ip] # NoClient
    /\ req[1] = FreshReq /\ calls = <<>>

\* Whether the list of images holds one for the kernel or for the boot
\* image that the response asks for.
HasImage(boot_images, osystem, release, params, any_subarch) ==
    \E i \in 1..Len(boot_images) :
        /\ boot_images[i].osystem = osystem
        /\ boot_images[i].release = release
        /\ boot_images[i].architecture = params.arch
        /\ boot_images[i].purpose = params.purpose
        /\ \/ any_subarch
           \/ boot_images[i].subarchitecture = params.subarch
           \/ params.subarch \in Range(boot_images[i].supported_subarches)
MarkFor(rd, osystem, release, is_kernel_image) ==
    [client |-> req[1].client, system_id |-> rd.response.system_id,
     error_description |->
         MissingImage(osystem, rd.response.arch, rd.response.subarch, release,
                      is_kernel_image)]

\* C18: a response for which the kernel image or the boot image is missing
\* is rendered all the same, with kernel_label or label "no-such-image";
\* for a response with a system_id one MarkNodeFailed naming the missing
\* image is sent per missing image, and for one without none is sent and
\* the failure is logged.
C18_ImageNotFoundNotFatal ==
    /\ reader.stage = "done" /\ req[1].pc = "done" => reader.rendered
    /\ reader.rendered /\ reader.raised.type = "none" => reader.result.kind = "reader"
    /\ reader.rendered /\ reader.response.purpose = "commissioning" =>
           LET p == reader.response
               kernel_found == HasImage(reader.boot_images, p.kernel_osystem,
                                        p.kernel_release, p, FALSE)
               boot_found == HasImage(reader.boot_images, p.osystem, p.release, p,
                                      p.osystem # p.kernel_osystem)
               kernel_mark == MarkFor(reader, p.kernel_osystem, p.kernel_release, TRUE)
               boot_mark == MarkFor(reader, p.osystem, p.release, FALSE)
               missing == (IF kernel_found THEN 0 ELSE 1) + (IF boot_found THEN 0 ELSE 1)
           IN  /\ reader.kernel_label = IF kernel_found THEN "stable" ELSE "no-such-image"
               /\ reader.label = IF boot_found THEN "stable" ELSE "no-such-image"
               /\ IF p.system_id # NoSystemId
                  THEN /\ Len(reader.marks) = missing
                       /\ reader.enlistment_errors = <<>>
                       /\ ~kernel_found <=> kernel_mark \in Range(reader.marks)
                       /\ ~boot_found <=> boot_mark \in Range(reader.marks)
                  ELSE /\ reader.marks = <<>>
                       /\ Len(reader.enlistment_errors) = missing

\* A known machine asked for images that are both missing: two
\* MarkNodeFailed calls were sent and the configuration was rendered.
C18_Witness ==
    /\ reader.stage = "done" /\ reader.result.kind = "reader"
    /\ reader.rendered
    /\ reader.response.system_id = "node-1"
    /\ reader.kernel_label = "no-such-image" /\ reader.label = "no-such-image"
    /\ Len(reader.marks) = 2

(***************************************************************************)
(* provisioningserver/rackdservices/tftp.py: TFTPService.updateServers     *)
(***************************************************************************)
\* Number of updateServers passes in one behaviour.
MaxPasses == 2

\* The addresses a host interface can have; one is link-local.
Addresses == {"10.0.0.1", "10.0.0.2", "10.0.0.3", "fe80::1"}

\* IPAddress(address).is_link_local()
is_link_local(address) == address = "fe80::1"

\* The elements of a set in the order a loop over the set visits them.
RECURSIVE InLoopOrder(_)
InLoopOrder(set) ==
    IF set = {} THEN <<>>
    ELSE LET first == CHOOSE x \in set : TRUE
         IN  <<first>> \o InLoopOrder(set \ {first})

\* TFTPService.getServers
getServers_all == {services[i] : i \in 1..Len(services)}

getServers == {services[i] : i \in 1..Len(services)} \ {refresher}

\* The addresses updateServers considers for a new server.
addrs_to_start_all(addrs_desired, addrs_established) == addrs_desired

addrs_to_start(addrs_desired, addrs_established) ==
    addrs_desired \ addrs_established

\* UDPServer(...), setName(address), setServiceParent(self) for each
\* address in turn.
StartedServers(addresses, pass) ==
    [i \in 1..Len(addresses) |-> [name |-> addresses[i], since |-> pass]]

\* The refresher calls updateServers; the pass runs to its end without
\* giving up control.
UpdateServers ==
    /\ Len(passes) < MaxPasses
    /\ LET addrs_established == {udp_server.name : udp_server \in getServers}
           addrs_desired == host_addresses
           starting ==
               {address \in addrs_to_start(addrs_desired, addrs_established) :
                    ~is_link_local(address)}
           started == StartedServers(InLoopOrder(starting), Len(passes) + 1)
           stopping == addrs_established \ addrs_desired
           \* getServiceNamed(address).disownServiceParent()
           stopped == SelectSeq(services, LAMBDA udp_server : udp_server.name \in stopping)
           remaining ==
               SelectSeq(services \o started,
                         LAMBDA udp_server : udp_server.name \notin stopping)
       IN  /\ services' = remaining
           /\ passes' = Append(passes,
                  [desired |-> addrs_desired, established |-> addrs_established,
                   before |-> services, started |-> started, stopped |-> stopped,
                   after |-> remaining])
    /\ UNCHANGED host_addresses

\* The network configuration of the host changes.
InterfacesChange(addresses) ==
    /\ addresses # host_addresses
    /\ host_addresses' = addresses
    /\ UNCHANGED <<services, passes>>

ListenerNext ==
    \/ UpdateServers /\ UNCHANGED <<tftp_vars, dhcp_vars, reader_vars, pure_vars, sharing_vars, method_vars, cluster_vars, history_vars>>
    \/ \E addresses \in SUBSET Addresses :
           InterfacesChange(addresses) /\ UNCHANGED <<tftp_vars, dhcp_vars, reader_vars, pure_vars, sharing_vars, method_vars, cluster_vars, history_vars>>

ListenerInit ==
    /\ TFTPInit /\ live = Clients
    /\ DHCPInit
    /\ \A s \in Servers : ~service[s].active /\ ~config_exists[s]
    /\ reader = NoReader /\ image_lookup = NoLookup /\ state_pair = NoPair
    /\ NoListeners /\ NoSharing
    /\ boot_method_search = NoSearch /\ NoClusters /\ NoHistory

SpecListeners == ListenerInit /\ [][ListenerNext]_vars

(***************************************************************************)
(* Properties of updateServers.                                            *)
(***************************************************************************)
ListenersOn(servers, address) ==
    {i \in 1..Len(servers) : servers[i].name = address}
NamesOf(servers) == {servers[i].name : i \in 1..Len(servers)}
\* The services that listen on an address: all but the refresher.
Listeners(servers) == SelectSeq(servers, LAMBDA server : server.name # "refresher")
NonLinkLocal(addresses) ==
    {address \in addresses : address \notin {"fe80::1"}}

\* C21: after every updateServers pass the addresses with a listener are
\* exactly the non-link-local addresses the host had at the pass; from one
\* pass to the next the listeners of the addresses that stay are kept as
\* they are, the addresses that are new get a listener started in that
\* pass, the listeners of the addresses that are gone are stopped and
\* removed; no address ever has two listeners.
C21_ListenersFollowInterfaces ==
    /\ \A address \in Addresses : Cardinality(ListenersOn(services, address)) <= 1
    /\ \A n \in 1..Len(passes) :
           LET pass == passes[n]
               before == Listeners(pass.before)
               after == Listeners(pass.after)
               kept == NonLinkLocal(pass.desired) \cap NamesOf(before)
           IN  /\ NamesOf(after) = NonLinkLocal(pass.desired)
               /\ \A address \in Addresses :
                      Cardinality(ListenersOn(after, address)) <= 1
               /\ \A i \in 1..Len(after) :
                      IF after[i].name \in kept
                      THEN \E j \in 1..Len(before) : before[j] = after[i]
                      ELSE after[i].since = n
               /\ NamesOf(pass.stopped) = NamesOf(before) \ pass.desired
               /\ NamesOf(pass.started) = NonLinkLocal(pass.desired) \ NamesOf(before)
               /\ NamesOf(pass.stopped) \cap NamesOf(after) = {}
    /\ Len(passes) > 0 => services = passes[Len(passes)].after

\* Interfaces {A, B}, then {B, C}: after the two passes B has the listener
\* of the first pass, C one of the second, A's is stopped and gone.
C21_Witness ==
    /\ Len(passes) = 2
    /\ passes[1].desired = {"10.0.0.1", "10.0.0.2"}
    /\ passes[2].desired = {"10.0.0.2", "10.0.0.3"}
    /\ NamesOf(Listeners(services)) = {"10.0.0.2", "10.0.0.3"}
    /\ \E i \in 1..Len(services) :
           services[i] = [name |-> "10.0.0.2", since |-> 1]
    /\ \E i \in 1..Len(services) :
           services[i] = [name |-> "10.0.0.3", since |-> 2]
    /\ passes[2].stopped = <<[name |-> "10.0.0.1", since |-> 1]>>

(***************************************************************************)
(* The mappings of concurrent requests: the params a boot method matched,  *)
(* the arguments of GetBootConfig (get_kernel_params) and the response     *)
(* that TFTPBackend.get_boot_image works on.                               *)
(***************************************************************************)
\* A new mapping, held by request r.
Mapping(kind, r, system_id) ==
    [kind |-> kind, system_id |-> system_id, kernel_label |-> "", label |-> "",
     users |-> {r}]

\* match_path gives the request its params, handle_boot_method writes the
\* addresses into them, and get_kernel_params builds the arguments from
\* them: params = {name: params[name] for name in arguments ...}.
OwnMappings(r) ==
    /\ mappings' = mappings \o <<Mapping("params", r, NoSystemId),
                                 Mapping("arguments", r,
                                         IF req'[r].client # NoClient
                                         THEN "rack" ELSE NoSystemId)>>
    /\ resolution' = [resolution EXCEPT ![r] =
           [NoResolution EXCEPT !.params = Len(mappings) + 1,
                                !.arguments = Len(mappings) + 2]]

\* get_reader up to the first suspension of get_kernel_params.
ResolveRequest(r, ip, args) ==
    /\ GetKernelParams(r, ip, args)
    /\ OwnMappings(r)

\* fetch: params["system_id"] = client.localIdent, in the arguments.
ResolveClientDelivered(r, client) ==
    /\ ClientDelivered(r, client)
    /\ mappings' = [mappings EXCEPT ![resolution[r].arguments].system_id = "rack"]
    /\ UNCHANGED resolution

\* The responses of the region to GetBootConfig in this specification.
SharingConfigs ==
    {config \in BootConfigs :
        /\ config.purpose \in {"local", "commissioning"}
        /\ config.osystem = "ubuntu"}

\* RPCFetcher: the mapping each waiter of a call is given when the call
\* answers with `result`, a mapping already in `mappings`.  The one result
\* is fanned out to all the waiters.
fetcher_result(waiter, result) == result

\* The orders in which the callbacks of the waiters can run.
Orders(waiters) ==
    {order \in [1..Cardinality(waiters) -> waiters] :
        \A i, j \in 1..Cardinality(waiters) : i # j => order[i] # order[j]}

\* d.addCallback(self.get_boot_image, client, params["remote_ip"]) for one
\* waiter: system_id is popped from the mapping, the labels are written
\* into it.
ResolvedBy(r, heap, res, sent, boot_images) ==
    LET id == res[r].response
        params == [sent EXCEPT !.system_id = heap[id].system_id]
        found == backend_get_boot_image(params, req[r].client, req[r].remote_ip,
                                        boot_images)
    IN  [heap |-> [heap EXCEPT ![id] =
                      [@ EXCEPT !.system_id = NoSystemId,
                                !.kernel_label = found.kernel_label,
                                !.label = found.label,
                                !.users = @ \cup {r}]],
         res |-> [res EXCEPT ![r] =
                     [@ EXCEPT !.sent = sent, !.boot_images = boot_images,
                               !.system_id = params.system_id,
                               !.kernel_label = found.kernel_label,
                               !.label = found.label,
                               !.marks = found.marks, !.errors = found.errors]]]

\* The callbacks of all the waiters, in their order.
RECURSIVE RunCallbacks(_, _, _, _, _)
RunCallbacks(order, heap, res, sent, boot_images) ==
    IF order = <<>> THEN [heap |-> heap, res |-> res]
    ELSE LET step == ResolvedBy(Head(order), heap, res, sent, boot_images)
         IN  RunCallbacks(Tail(order), step.heap, step.res, sent, boot_images)

\* The GetBootConfig call c answers with `sent`: the fetcher gives the
\* result to the requests waiting for the call and their callbacks run.
BootConfigArrives(c, sent, boot_images) ==
    /\ RpcCompletes(c, "ok")
    /\ LET waiters == {r \in Reqs : req[r].pc = "wait_rpc" /\ req[r].call = c}
           result == Len(mappings) + 1
           heap == Append(mappings,
                       [kind |-> "response", system_id |-> sent.system_id,
                        kernel_label |-> "", label |-> "", users |-> {}])
           res == [r \in Reqs |->
                      IF r \in waiters
                      THEN [resolution[r] EXCEPT !.response = fetcher_result(r, result)]
                      ELSE resolution[r]]
       IN  \E order \in Orders(waiters) :
               LET ran == RunCallbacks(order, heap, res, sent, boot_images)
               IN  /\ mappings' = ran.heap
                   /\ resolution' = ran.res

\* The GetBootConfig call fails: no callback of fetch runs.
BootConfigFails(c) ==
    /\ RpcCompletes(c, "failed")
    /\ UNCHANGED sharing_vars

SharingNext ==
    \/ \E r \in Reqs, ip \in RemoteIPs, args \in Args :
           ResolveRequest(r, ip, args) /\ UNCHANGED <<dhcp_vars, reader_vars, pure_vars, listener_vars, method_vars, cluster_vars, history_vars>>
    \/ \E r \in Reqs, client \in Clients :
           ResolveClientDelivered(r, client) /\ UNCHANGED <<dhcp_vars, reader_vars, pure_vars, listener_vars, method_vars, cluster_vars, history_vars>>
    \/ \E c \in 1..NumReqs, sent \in SharingConfigs, boot_images \in {<<>>, <<UbuntuImage>>} :
           BootConfigArrives(c, sent, boot_images) /\ UNCHANGED <<dhcp_vars, reader_vars, pure_vars, listener_vars, method_vars, cluster_vars, history_vars>>
    \/ \E c \in 1..NumReqs :
           BootConfigFails(c) /\ UNCHANGED <<dhcp_vars, reader_vars, pure_vars, listener_vars, method_vars, cluster_vars, history_vars>>

SharingInit ==
    /\ TFTPInit /\ live = Clients
    /\ DHCPInit
    /\ \A s \in Servers : ~service[s].active /\ ~config_exists[s]
    /\ reader = NoReader /\ image_lookup = NoLookup /\ state_pair = NoPair
    /\ NoListeners /\ NoSharing
    /\ boot_method_search = NoSearch /\ NoClusters /\ NoHistory

SpecSharing == SharingInit /\ [][SharingNext]_vars

(***************************************************************************)
(* Properties of the mappings.                                             *)
(***************************************************************************)
\* C22: no mapping a request's resolution reads and writes is used by
\* another request, and every request whose GetBootConfig call answered has
\* seen the system_id of the response and has both labels, as the response
\* and the images give them.
C22_ParamsNeverShared ==
    /\ \A id \in 1..Len(mappings) : Cardinality(mappings[id].users) <= 1
    /\ \A r \in Reqs :
           req[r].pc = "done" =>
               /\ resolution[r].system_id = resolution[r].sent.system_id
               /\ resolution[r].kernel_label # "" /\ resolution[r].label # ""
               /\ resolution[r].sent.purpose = "commissioning"
                      /\ resolution[r].boot_images = <<>>
                      /\ resolution[r].sent.system_id # NoSystemId
                      => Len(resolution[r].marks) = 2 /\ resolution[r].errors = <<>>

(***************************************************************************)
(* Properties of the steps of configure.                                   *)
(***************************************************************************)
\* A write of the config file or of the interfaces file failed.
WriteFailed(c) == \E i \in 1..Len(c.log) : i <= 2 /\ ~c.log[i].ok
\* The positions in a log of the events of some operations.
Positions(log, ops) == {i \in 1..Len(log) : log[i].op \in ops}
ServiceActions == {"getServiceState", "ensureService", "restartService"}

\* C23: a configure call with a shared network first writes the config
\* file and the interfaces file from the desired state and marks the
\* service on, unless a write fails; so it does when the desired state is
\* the remembered one and only ensureService follows.
C23_ConfigAlwaysRewritten ==
    \A s \in Servers :
        LET c == call[s]
            new == c.new_state
        IN  c.pc \notin {"idle", "write_config"} /\ ~c.stopping /\ ~WriteFailed(c) =>
                /\ IsPrefix(<<"write_config", "write_interfaces", "on">>, Ops(c.log))
                /\ Len(c.written) = 2
                /\ c.written[1].file = "config"
                /\ c.written[1].content.omapi_key = new.omapi_key
                /\ c.written[1].content.failover_peers = new.failover_peers
                /\ c.written[1].content.shared_networks = new.shared_networks
                /\ Range(c.written[1].content.hosts) = Range(new.hosts)
                /\ c.written[1].content.global_dhcp_snippets = new.global_dhcp_snippets
                /\ c.written[2] = [file |-> "interfaces", content |-> new.interfaces]
                /\ config_exists[s]
                /\ service[s].on

\* The desired state was the remembered one, with a host: the files were
\* written again and the service was only made sure of.
C23_Witness ==
    \E s \in Servers :
        LET c == call[s]
        IN  /\ c.pc = "done" /\ c.result = "ok"
            /\ c.found_state = c.new_state /\ c.new_state.kind = "state"
            /\ c.new_state.hosts # <<>>
            /\ Ops(c.log) = <<"write_config", "write_interfaces", "on", "ensureService">>
            /\ Len(c.written) = 2

\* The desired state has the hosts of the remembered one, with their
\* addresses and snippets, and the same structural fields.
NothingToUpdate(new, old) ==
    /\ ~StructuralChange(new, old)
    /\ MacsOf(new) = MacsOf(old)
    /\ \A mac \in MacsOf(new) :
           /\ HostOf(new.hosts, mac).ip = HostOf(old.hosts, mac).ip
           /\ HostOf(new.hosts, mac).dhcp_snippets = HostOf(old.hosts, mac).dhcp_snippets

\* C24: with a remembered state, no structural change and no host to add,
\* remove or modify, configure writes the files, marks the service on and
\* calls ensureService once; it issues no restart, no service state query
\* and no host map call.  So a configure call repeated with the same
\* desired state never restarts the service.
C24_EmptyDiffEnsuresOnly ==
    \A s \in Servers :
        LET c == call[s]
        IN  /\ c.pc # "idle" /\ ~c.stopping /\ c.found_state.kind = "state"
            /\ NothingToUpdate(c.new_state, c.found_state)
            => /\ IsPrefix(Ops(c.log), <<"write_config", "write_interfaces", "on",
                                         "ensureService">>)
               /\ c.pc \in {"write_config", "ensure", "done"}
               /\ c.pc = "ensure" => Len(c.log) = 3
               /\ c.pc = "done" /\ ~WriteFailed(c) =>
                      /\ CountOp(c.log, "ensureService") = 1
                      /\ CountOp(c.log, "restartService") = 0
                      /\ CountOp(c.log, "getServiceState") = 0
                      /\ Positions(c.log, HostMapOps) = {}

\* A configure call was repeated with the state it had left: the service,
\* running, was made sure of and not restarted.
C24_Witness ==
    \E s \in Servers :
        LET c == call[s]
        IN  /\ c.pc = "done" /\ c.result = "ok"
            /\ c.found_state = c.new_state /\ c.new_state.kind = "state"
            /\ c.found_active
            /\ Ops(c.log) = <<"write_config", "write_interfaces", "on", "ensureService">>
            /\ current_server_state[s] = c.new_state

\* C25: with a host-only change, configure reads the running state of the
\* service before it calls ensureService; the host maps are updated if and
\* only if the service was active at that reading; when it was not,
\* ensureService is all that follows, and when it succeeds the desired
\* state is remembered.
C25_UpdateOnlyIfWasActive ==
    \A s \in Servers :
        LET c == call[s]
            steps == <<"write_config", "write_interfaces", "on", "getServiceState",
                       "ensureService">>
        IN  /\ c.pc # "idle" /\ ~c.stopping /\ c.found_state.kind = "state"
            /\ HostOnlyChange(c.new_state, c.found_state)
            => /\ IsPrefix(Ops(c.log), steps) \/ IsPrefix(steps, Ops(c.log))
               /\ c.before_state = "unknown" <=>
                      \A i \in Positions(c.log, {"getServiceState"}) : ~c.log[i].ok
               /\ Positions(c.log, HostMapOps) # {} => c.before_state = "on"
               /\ c.before_state = "on" /\ Len(c.log) >= 5 /\ c.log[5].ok =>
                      /\ c.pc \in {"update_hosts", "fallback_restart", "done"}
                      /\ c.pc # "update_hosts" => Positions(c.log, HostMapOps) # {}
               /\ c.before_state = "off" =>
                      /\ Len(c.log) <= 5
                      /\ Len(c.log) = 5 =>
                             /\ c.pc = "done"
                             /\ c.log[5].ok =>
                                    /\ c.result = "ok"
                                    /\ current_server_state[s] = c.new_state
                                    /\ c.new_state # c.found_state

\* The service had died while the state was remembered: a host was added,
\* the service was started and no host map call was made.
C25_Witness ==
    \E s \in Servers :
        LET c == call[s]
        IN  /\ c.pc = "done" /\ c.result = "ok"
            /\ c.found_state.kind = "state"
            /\ AddedMacs(c.new_state, c.found_state) # {}
            /\ c.before_state = "off"
            /\ Ops(c.log) = <<"write_config", "write_interfaces", "on",
                              "getServiceState", "ensureService">>
            /\ current_server_state[s] = c.new_state

\* C26: in a configure call both files are written before the service is
\* marked on, the service is marked on before any service state query,
\* ensureService or restartService, a host map call comes only after an
\* ensureService that has returned, a restart after host map calls only
\* after a failed one; when a write fails nothing follows it, and the step
\* in which it fails leaves the service as it was.
C26_StepOrder ==
    /\ [](\A s \in Servers :
             LET c == call[s]
                 log == c.log
             IN  ~c.stopping =>
                     /\ \A i \in Positions(log, {"on"}) :
                            /\ i = 3
                            /\ log[1].op = "write_config" /\ log[1].ok
                            /\ log[2].op = "write_interfaces" /\ log[2].ok
                     /\ \A i \in Positions(log, ServiceActions) :
                            \E j \in Positions(log, {"on"}) : j < i
                     /\ \A i \in Positions(log, HostMapOps) :
                            \E j \in Positions(log, {"ensureService"}) : j < i /\ log[j].ok
                     /\ \A i \in Positions(log, {"restartService"}) :
                            i > 4 => log[i - 1].op \in HostMapOps /\ ~log[i - 1].ok
                     /\ \A i \in Positions(log, HostMapOps) :
                            ~log[i].ok /\ i < Len(log) =>
                                log[i + 1].op = "restartService" /\ Len(log) = i + 1
                     /\ WriteFailed(c) =>
                            /\ c.pc = "done" /\ c.result # "ok"
                            /\ Positions(log, {"on"} \cup ServiceActions \cup HostMapOps) = {}
                            /\ ~log[Len(log)].ok)
    /\ [][\A s \in Servers :
              ~WriteFailed(call[s]) /\ WriteFailed(call'[s]) => service' = service]_vars

\* The write of the interfaces file failed while the service was running.
C26_Witness ==
    \E s \in Servers :
        LET c == call[s]
        IN  /\ c.pc = "done" /\ c.result = "CannotConfigureDHCP"
            /\ Ops(c.log) = <<"write_config", "write_interfaces">>
            /\ ~c.log[2].ok
            /\ c.found_active /\ service[s].active

\* C28: a configure call in which the service state query fails ends with
\* CannotConfigureDHCP.
C28_QueryFailureIsUnified ==
    \A s \in Servers :
        LET c == call[s]
        IN  c.pc = "done" =>
                \A i \in Positions(c.log, {"getServiceState"}) :
                    ~c.log[i].ok => c.result = "CannotConfigureDHCP"

(***************************************************************************)
(* host_diff as a function of two states, over host lists of all kinds.    *)
(***************************************************************************)
\* Host lists of up to two hosts, in any order, also with one MAC twice.
DiffHosts == [mac : 1..(NumMacs + 1), ip : Ips, dhcp_snippets : {<<>>}]
DiffHostLists == UNION {[1..n -> DiffHosts] : n \in 0..2}

DiffInit ==
    /\ TFTPInit /\ live = Clients
    /\ DHCPInit
    /\ \A s \in Servers : ~service[s].active /\ ~config_exists[s]
    /\ reader = NoReader /\ image_lookup = NoLookup
    /\ NoListeners /\ NoSharing
    /\ boot_method_search = NoSearch /\ NoClusters /\ NoHistory
    /\ \E hosts \in DiffHostLists, other_hosts \in DiffHostLists :
           state_pair = [done |-> FALSE,
                         a |-> [BaseInput EXCEPT !.hosts = hosts],
                         b |-> [BaseInput EXCEPT !.hosts = other_hosts]]

SpecDiff == DiffInit /\ [][StateNext]_vars

\* The MACs of a list of hosts, and whether it names no MAC twice.
ListedMacs(hosts) == {hosts[i].mac : i \in 1..Len(hosts)}
OncePerMac(hosts) == Cardinality(ListedMacs(hosts)) = Len(hosts)

\* C27: host_diff of a new state against an old one gives as additions the
\* new state's hosts whose MAC the old state does not have, as removals
\* the old state's hosts whose MAC the new state does not have, and as
\* modifications the new state's hosts whose MAC both have with another
\* IP; no MAC is in two of the lists or twice in one, and a host with the
\* same MAC and IP in both states is in none.
C27_ThreeWayHostDiff ==
    state_pair.done =>
        LET new == state_pair.self
            old == state_pair.other_state
            diff == state_pair.diff
        IN  /\ Range(diff.add) = {HostOf(new.hosts, mac) : mac \in AddedMacs(new, old)}
            /\ Range(diff.remove) = {HostOf(old.hosts, mac) : mac \in RemovedMacs(new, old)}
            /\ Range(diff.modify) = {HostOf(new.hosts, mac) : mac \in ChangedMacs(new, old)}
            /\ OncePerMac(diff.add \o diff.remove \o diff.modify)
            /\ \A mac \in MacsOf(new) \cap MacsOf(old) :
                   HostOf(new.hosts, mac).ip = HostOf(old.hosts, mac).ip
                       => mac \notin ListedMacs(diff.add \o diff.remove \o diff.modify)

\* One host is new, one is gone and one has another address.
C27_Witness ==
    /\ state_pair.done
    /\ Len(state_pair.diff.add) = 1
    /\ Len(state_pair.diff.remove) = 1
    /\ Len(state_pair.diff.modify) = 1
    /\ state_pair.diff.modify[1].ip
           # HostOf(state_pair.other_state.hosts, state_pair.diff.modify[1].mac).ip

(***************************************************************************)
(* configure for the DHCPv4 and the DHCPv6 server, the calls of the two    *)
(* servers interleaved.                                                    *)
(***************************************************************************)
\* The arguments of configure: stop, one network without or with a host.
ServerInputs ==
    {[BaseInput EXCEPT !.shared_networks = <<>>],
     BaseInput,
     [BaseInput EXCEPT !.hosts = <<[mac |-> 1, ip |-> 1, dhcp_snippets |-> <<>>]>>]}

ServersNext ==
    \/ \E s \in Servers, input \in ServerInputs :
           Configure(s, input) /\ UNCHANGED <<tftp_vars, reader_vars, pure_vars, listener_vars, sharing_vars, method_vars, cluster_vars, history_vars>>
    \/ \E s \in Servers, ok \in BOOLEAN :
           DeleteConfig(s, ok) /\ UNCHANGED <<tftp_vars, reader_vars, pure_vars, listener_vars, sharing_vars, method_vars, cluster_vars, history_vars>>
    \/ \E s \in Servers, outcome \in {"ok", "Exception"} :
           StopService(s, outcome) /\ UNCHANGED <<tftp_vars, reader_vars, pure_vars, listener_vars, sharing_vars, method_vars, cluster_vars, history_vars>>
    \/ \E s \in Servers, outcome \in {"ok", "config_fails"} :
           WriteConfig(s, outcome) /\ UNCHANGED <<tftp_vars, reader_vars, pure_vars, listener_vars, sharing_vars, method_vars, cluster_vars, history_vars>>
    \/ \E s \in Servers, outcome \in {"ok", "Exception"} :
           RestartService(s, outcome) /\ UNCHANGED <<tftp_vars, reader_vars, pure_vars, listener_vars, sharing_vars, method_vars, cluster_vars, history_vars>>
    \/ \E s \in Servers, outcome \in {"ok", "Exception"} :
           EnsureService(s, outcome) /\ UNCHANGED <<tftp_vars, reader_vars, pure_vars, listener_vars, sharing_vars, method_vars, cluster_vars, history_vars>>
    \/ \E s \in Servers, outcome \in {"ok", "Exception"} :
           GetServiceState(s, outcome) /\ UNCHANGED <<tftp_vars, reader_vars, pure_vars, listener_vars, sharing_vars, method_vars, cluster_vars, history_vars>>
    \/ \E s \in Servers, outcome \in {"ok", "Exception"} :
           EnsureThenUpdate(s, outcome) /\ UNCHANGED <<tftp_vars, reader_vars, pure_vars, listener_vars, sharing_vars, method_vars, cluster_vars, history_vars>>
    \/ \E s \in Servers, failing \in 0..1 :
           UpdateHosts(s, failing) /\ UNCHANGED <<tftp_vars, reader_vars, pure_vars, listener_vars, sharing_vars, method_vars, cluster_vars, history_vars>>
    \/ \E s \in Servers, outcome \in {"ok", "Exception"} :
           FallbackRestart(s, outcome) /\ UNCHANGED <<tftp_vars, reader_vars, pure_vars, listener_vars, sharing_vars, method_vars, cluster_vars, history_vars>>
    \/ \E s \in Servers :
           CallEnds(s) /\ UNCHANGED <<tftp_vars, reader_vars, pure_vars, listener_vars, sharing_vars, method_vars, cluster_vars, history_vars>>

\* Both daemons are stopped and unconfigured when the module is loaded.
ServersInit ==
    /\ TFTPInit /\ live = Clients
    /\ DHCPInit
    /\ \A s \in Servers : ~service[s].active /\ ~config_exists[s]
    /\ reader = NoReader /\ image_lookup = NoLookup /\ state_pair = NoPair
    /\ NoListeners /\ NoSharing
    /\ boot_method_search = NoSearch /\ NoClusters /\ NoHistory

SpecServers == ServersInit /\ [][ServersNext]_vars

\* C29: a configure call for one server works on the remembered state of
\* that server only: the state it found is the server's own and stays the
\* server's entry while the call runs, the call ends with the entry set to
\* its own outcome (None or the desired state after success, the state it
\* found after a failure), and no step of a call changes the entry of the
\* other server.
C29_ServersIndependent ==
    /\ [](\A s \in Servers :
             LET c == call[s]
             IN  /\ c.pc \notin {"idle", "done"} =>
                        current_server_state[s] = c.found_state
                 /\ c.pc = "done" =>
                        current_server_state[s] =
                            IF c.result # "ok" THEN c.found_state
                            ELSE IF c.stopping THEN None ELSE c.new_state)
    /\ [][\A s \in Servers :
              call'[s] = call[s] => current_server_state'[s] = current_server_state[s]]_vars

\* The DHCPv4 server is configured with a host while a call for the DHCPv6
\* server, which had been configured before, fails to stop it.
C29_Witness ==
    /\ call["dhcpd"].pc = "done" /\ call["dhcpd"].result = "ok"
    /\ current_server_state["dhcpd"].kind = "state"
    /\ current_server_state["dhcpd"].hosts # <<>>
    /\ call["dhcpd6"].pc = "done" /\ call["dhcpd6"].result # "ok"
    /\ call["dhcpd6"].stopping
    /\ current_server_state["dhcpd6"].kind = "state"
    /\ current_server_state["dhcpd6"].hosts = <<>>

(***************************************************************************)
(* TFTPBackend.get_boot_image applied to one response of the region and    *)
(* one list of boot images.                                                *)
(***************************************************************************)
\* Responses of the region for a known machine: every purpose, the kernel
\* of the same and of another operating system than the one to boot.
ResolveParams ==
    [system_id : {"node-1"},
     purpose : {"local", "local-device", "commissioning", "enlist"},
     osystem : OSystems, kernel_osystem : OSystems,
     release : Releases, kernel_release : Releases,
     arch : Architectures, subarch : Subarches]

\* Images that differ in what decides a lookup and in their label.
ResolveImages ==
    [osystem : OSystems, release : Releases, architecture : Architectures,
     subarchitecture : Subarches, supported_subarches : {<<>>, <<"hwe">>},
     purpose : {"commissioning"}, label : {"stable", "daily"}]

ResolveCatalogs == UNION {[1..n -> ResolveImages] : n \in 0..MaxImages}

NoLabels ==
    [kernel_label |-> "", label |-> "", marks |-> <<>>, errors |-> <<>>, lookups |-> <<>>,
     purpose |-> "", xinstall_path |-> NotAssigned]

ResolveInit ==
    /\ TFTPInit /\ live = Clients
    /\ DHCPInit
    /\ \A s \in Servers : ~service[s].active /\ ~config_exists[s]
    /\ reader = NoReader /\ state_pair = NoPair
    /\ NoListeners /\ NoSharing
    /\ boot_method_search = NoSearch /\ NoClusters /\ NoHistory
    /\ image_lookup \in
           [done : {FALSE}, params : ResolveParams, boot_images : ResolveCatalogs,
            result : {NoLabels}]

\* One call of TFTPBackend.get_boot_image.
BackendGetBootImage ==
    /\ ~image_lookup.done
    /\ image_lookup' =
           [image_lookup EXCEPT
               !.done = TRUE,
               !.result = backend_get_boot_image(image_lookup.params, 1, 1,
                              image_lookup.boot_images)]
    /\ UNCHANGED <<tftp_vars, dhcp_vars, reader_vars, state_pair, listener_vars, sharing_vars, method_vars, cluster_vars, history_vars>>

ResolveNext == BackendGetBootImage

SpecResolve == ResolveInit /\ [][ResolveNext]_vars

\* A lookup as a question to the list of boot images of the call.
Question(lookup) ==
    [boot_images |-> image_lookup.boot_images, osystem |-> lookup.osystem,
     release |-> lookup.release, architecture |-> lookup.architecture,
     subarchitecture |-> lookup.subarchitecture, purpose |-> lookup.purpose]

\* The label a lookup leaves in params: that of the first candidate when
\* the subarchitecture check is skipped, else that of the first exact
\* match, else that of the first supporting candidate, else no-such-image.
LabelFound(lookup) ==
    LET q == Question(lookup)
    IN  IF Candidates(q) = {} THEN "no-such-image"
        ELSE IF lookup.skip_subarchitecture_check
        THEN q.boot_images[First(Candidates(q))].label
        ELSE IF ExactMatches(q) # {} THEN q.boot_images[First(ExactMatches(q))].label
        ELSE IF SupportingMatches(q) # {}
        THEN q.boot_images[First(SupportingMatches(q))].label
        ELSE "no-such-image"

\* The purpose is local when get_boot_image tests it: local-device has
\* been rewritten to local by then.
IsLocal(params) == params.purpose \in {"local", "local-device"}

\* C30: for a response whose purpose is not local, get_boot_image looks up
\* exactly two images: first the kernel image for (kernel_osystem,
\* kernel_release) with the subarchitecture check not skipped, then the
\* boot image for (osystem, release) with the check skipped if and only if
\* osystem differs from kernel_osystem; kernel_label and label are what
\* the two lookups find, the second whatever the first found.
C30_TwoPassResolution ==
    image_lookup.done /\ ~IsLocal(image_lookup.params) =>
        LET params == image_lookup.params
            result == image_lookup.result
            kernel_pass == Lookup(params.kernel_osystem, params.kernel_release,
                               params.arch, params.subarch, params.purpose, FALSE)
            boot_pass == Lookup(params.osystem, params.release, params.arch,
                             params.subarch, params.purpose,
                             params.osystem # params.kernel_osystem)
        IN  /\ result.lookups = <<kernel_pass, boot_pass>>
            /\ result.kernel_label = LabelFound(kernel_pass)
            /\ result.label = LabelFound(boot_pass)

\* No kernel image was found, and the boot image of another operating
\* system was found only because the subarchitecture check was skipped.
C30_Witness ==
    /\ image_lookup.done /\ ~IsLocal(image_lookup.params)
    /\ image_lookup.params.osystem # image_lookup.params.kernel_osystem
    /\ image_lookup.result.kernel_label = "no-such-image"
    /\ image_lookup.result.label # "no-such-image"
    /\ LET q == Question(image_lookup.result.lookups[2])
       IN  Candidates(q) # {} /\ ExactMatches(q) = {} /\ SupportingMatches(q) = {}

(***************************************************************************)
(* Further properties of get_boot_image (module level).                    *)
(***************************************************************************)
\* C31: with skip_subarchitecture_check set, get_boot_image returns the
\* first image of the list that matches the request in operating system,
\* release, architecture and purpose, whatever its subarchitecture and
\* supported_subarches are; with the flag set or not, it returns None when
\* no image matches in these four fields.
C31_SkipReturnsFirstMatch ==
    image_lookup.done =>
        /\ Candidates(image_lookup) = {} => image_lookup.result = NoImage
        /\ image_lookup.skip_subarchitecture_check /\ Candidates(image_lookup) # {} =>
               image_lookup.result =
                   image_lookup.boot_images[First(Candidates(image_lookup))]

\* The check is skipped; the first candidate neither has nor supports the
\* requested subarchitecture, the second has it: the first was returned.
C31_Witness ==
    /\ image_lookup.done /\ image_lookup.skip_subarchitecture_check
    /\ Len(image_lookup.boot_images) = 2
    /\ Candidates(image_lookup) = {1, 2}
    /\ ExactMatches(image_lookup) = {2}
    /\ SupportingMatches(image_lookup) = {}
    /\ image_lookup.result = image_lookup.boot_images[1]
    /\ image_lookup.result.subarchitecture # image_lookup.subarchitecture

(***************************************************************************)
(* Further properties of TFTPBackend.get_boot_image.                       *)
(***************************************************************************)
\* C32: for a response of purpose local or local-device, get_boot_image
\* looks up no image and sends no MarkNodeFailed call (and logs no missing
\* image), sets label and kernel_label to local and xinstall_path to the
\* empty string, and leaves the purpose local; whatever the response, the
\* purpose left in params is never local-device.
C32_LocalBoot ==
    image_lookup.done =>
        /\ image_lookup.result.purpose # "local-device"
        /\ image_lookup.params.purpose \in {"local", "local-device"} =>
               /\ image_lookup.result.lookups = <<>>
               /\ image_lookup.result.marks = <<>>
               /\ image_lookup.result.errors = <<>>
               /\ image_lookup.result.label = "local"
               /\ image_lookup.result.kernel_label = "local"
               /\ image_lookup.result.xinstall_path = ""
               /\ image_lookup.result.purpose = "local"

\* A device boots locally while the rack controller has no image at all:
\* a lookup would have found nothing and marked the machine failed.
C32_Witness ==
    /\ image_lookup.done
    /\ image_lookup.params.purpose = "local-device"
    /\ image_lookup.params.system_id # NoSystemId
    /\ image_lookup.boot_images = <<>>
    /\ image_lookup.result.purpose = "local"
    /\ image_lookup.result.label = "local"
    /\ image_lookup.result.marks = <<>>

(***************************************************************************)
(* provisioningserver/rackdservices/tftp.py: TFTPBackend.get_boot_method   *)
(***************************************************************************)
\* Most boot methods registered.
MaxMethods == 3

\* What method.match_path(backend, file_name) gives for the file name of
\* the request: None, params, or an exception.
NoParams == [kind |-> "none"]
PathParams == {[kind |-> "params", arch |-> "amd64"], [kind |-> "params", arch |-> "arm64"]}
PathRaises == [kind |-> "raises"]
MatchResults == {NoParams, PathRaises} \cup PathParams

\* A boot method: its tag, and what its match_path gives for the file
\* name of the request (the same every time it is asked).
BootMethods ==
    [bios_boot_method : {"pxe", "uefi"}, match_path : MatchResults]

\* The BootMethodRegistry: the methods in the order they were registered.
Registries == UNION {[1..n -> BootMethods] : n \in 0..MaxMethods}

\* Iterating the BootMethodRegistry gives its methods in the order they
\* were registered.
registry_order(registry) == registry

\* returnValue((None, None))
NoMethod == [kind |-> "none"]

NewSearch(registry) ==
    [pc |-> "idle", registry |-> registry, index |-> 0, asked |-> <<>>,
     result |-> [kind |-> "pending"]]

\* The method the loop of get_boot_method takes after the methods up to
\* position index have been asked.
next_method(registry, index) == index + 1

\* params["bios_boot_method"] = method.bios_boot_method
tagged(params, method) ==
    [kind |-> "params", arch |-> params.arch, bios_boot_method |-> method.bios_boot_method]

\* What the loop does with the params a method's match_path gave.
on_match_go_on(search, position, params) ==
    [search EXCEPT
        !.asked = Append(@, position), !.index = @ + 1,
        !.result = [kind |-> "found", method |-> position,
                    params |-> tagged(params, registry_order(search.registry)[position])]]

on_match(search, position, params) ==
    [search EXCEPT
        !.pc = "done", !.asked = Append(@, position), !.index = @ + 1,
        !.result = [kind |-> "found", method |-> position,
                    params |-> tagged(params, registry_order(search.registry)[position])]]

\* get_boot_method is called.
GetBootMethod ==
    /\ boot_method_search.pc = "idle"
    /\ boot_method_search' = [boot_method_search EXCEPT !.pc = "loop"]
    /\ UNCHANGED <<tftp_vars, dhcp_vars, reader_vars, pure_vars, listener_vars, sharing_vars, cluster_vars, history_vars>>

\* One turn of the loop: the next method's match_path is called and its
\* result has come.
MatchPath ==
    /\ boot_method_search.pc = "loop"
    /\ boot_method_search.index < Len(boot_method_search.registry)
    /\ LET position == next_method(boot_method_search.registry, boot_method_search.index)
           method == registry_order(boot_method_search.registry)[position]
           params == method.match_path
       IN  boot_method_search' =
               IF params = PathRaises
               THEN [boot_method_search EXCEPT
                        !.pc = "done", !.asked = Append(@, position), !.index = @ + 1,
                        !.result = [kind |-> "raised", method |-> position]]
               ELSE IF params # NoParams
               THEN on_match(boot_method_search, position, params)
               ELSE [boot_method_search EXCEPT
                        !.asked = Append(@, position), !.index = @ + 1]
    /\ UNCHANGED <<tftp_vars, dhcp_vars, reader_vars, pure_vars, listener_vars, sharing_vars, cluster_vars, history_vars>>

\* The loop is over and no method has matched.
NoMethodMatched ==
    /\ boot_method_search.pc = "loop"
    /\ boot_method_search.index = Len(boot_method_search.registry)
    /\ boot_method_search' =
           [boot_method_search EXCEPT
               !.pc = "done", !.result = NoMethod]
    /\ UNCHANGED <<tftp_vars, dhcp_vars, reader_vars, pure_vars, listener_vars, sharing_vars, cluster_vars, history_vars>>

MethodNext ==
    \/ GetBootMethod
    \/ MatchPath
    \/ NoMethodMatched

MethodInit ==
    /\ TFTPInit /\ live = Clients
    /\ DHCPInit
    /\ \A s \in Servers : ~service[s].active /\ ~config_exists[s]
    /\ reader = NoReader /\ image_lookup = NoLookup /\ state_pair = NoPair
    /\ NoListeners /\ NoSharing /\ NoClusters /\ NoHistory
    /\ boot_method_search \in {NewSearch(registry) : registry \in Registries}

SpecMethod == MethodInit /\ [][MethodNext]_vars

\* The positions of the registered methods whose match_path gives params
\* for the file name, and of those whose match_path raises.
MatchingMethods(registry) ==
    {i \in 1..Len(registry) : registry[i].match_path \in PathParams}
RaisingMethods(registry) ==
    {i \in 1..Len(registry) : registry[i].match_path = PathRaises}

\* C33: get_boot_method asks the registered methods one after the other
\* in the order of their registration; when it returns a method, this is
\* the first registered method whose match_path gives params for the file
\* name, the params are those of this method with its bios_boot_method
\* added, and no method registered after it has been asked; when a method
\* matches and none before it raises, that method is returned; when none
\* matches and none raises, every method has been asked and no method is
\* returned.
C33_FirstMatchWins ==
    boot_method_search.pc # "idle" =>
        LET registry == boot_method_search.registry
            asked == boot_method_search.asked
            result == boot_method_search.result
            matching == MatchingMethods(registry)
            raising == RaisingMethods(registry)
        IN  /\ asked = [i \in 1..Len(asked) |-> i]
            /\ result.kind = "found" =>
                   /\ matching # {} /\ result.method = First(matching)
                   /\ Len(asked) = result.method
                   /\ result.params.arch = registry[result.method].match_path.arch
                   /\ result.params.bios_boot_method = registry[result.method].bios_boot_method
            /\ boot_method_search.pc = "done" /\ matching # {}
                   /\ (\A i \in raising : i > First(matching)) => result.kind = "found"
            /\ boot_method_search.pc = "done" /\ matching = {} /\ raising = {} =>
                   result = NoMethod /\ Len(asked) = Len(registry)

\* Three methods are registered; the first does not match, the second and
\* the third match with different params and tags: the second is returned
\* and the third has not been asked.
C33_Witness ==
    /\ boot_method_search.pc = "done"
    /\ Len(boot_method_search.registry) = 3
    /\ MatchingMethods(boot_method_search.registry) = {2, 3}
    /\ boot_method_search.registry[2].bios_boot_method # boot_method_search.registry[3].bios_boot_method
    /\ boot_method_search.registry[2].match_path # boot_method_search.registry[3].match_path
    /\ boot_method_search.result.kind = "found"
    /\ boot_method_search.result.method = 2
    /\ boot_method_search.asked = <<1, 2>>

(***************************************************************************)
(* configure for one server whose host list changes from call to call:     *)
(* hosts come, go and change their IP address at the same time.            *)
(***************************************************************************)
\* The host lists given to configure: hosts of different MACs, by MAC.
HostMapLists ==
    {hosts \in UNION {[1..n -> DiffHosts] : n \in 0..(NumMacs + 1)} :
        \A i, j \in 1..Len(hosts) : i < j => hosts[i].mac < hosts[j].mac}

HostMapInputs == {[BaseInput EXCEPT !.hosts = hosts] : hosts \in HostMapLists}

HostMapNext ==
    \/ \E input \in HostMapInputs :
           Configure("dhcpd", input) /\ UNCHANGED <<tftp_vars, reader_vars, pure_vars, listener_vars, sharing_vars, method_vars, cluster_vars, history_vars>>
    \/ WriteConfig("dhcpd", "ok") /\ UNCHANGED <<tftp_vars, reader_vars, pure_vars, listener_vars, sharing_vars, method_vars, cluster_vars, history_vars>>
    \/ RestartService("dhcpd", "ok") /\ UNCHANGED <<tftp_vars, reader_vars, pure_vars, listener_vars, sharing_vars, method_vars, cluster_vars, history_vars>>
    \/ EnsureService("dhcpd", "ok") /\ UNCHANGED <<tftp_vars, reader_vars, pure_vars, listener_vars, sharing_vars, method_vars, cluster_vars, history_vars>>
    \/ GetServiceState("dhcpd", "ok") /\ UNCHANGED <<tftp_vars, reader_vars, pure_vars, listener_vars, sharing_vars, method_vars, cluster_vars, history_vars>>
    \/ EnsureThenUpdate("dhcpd", "ok") /\ UNCHANGED <<tftp_vars, reader_vars, pure_vars, listener_vars, sharing_vars, method_vars, cluster_vars, history_vars>>
    \/ \E failing \in 0..(2 * (NumMacs + 1)) :
           UpdateHosts("dhcpd", failing) /\ UNCHANGED <<tftp_vars, reader_vars, pure_vars, listener_vars, sharing_vars, method_vars, cluster_vars, history_vars>>
    \/ \E outcome \in {"ok", "Exception"} :
           FallbackRestart("dhcpd", outcome) /\ UNCHANGED <<tftp_vars, reader_vars, pure_vars, listener_vars, sharing_vars, method_vars, cluster_vars, history_vars>>
    \/ CallEnds("dhcpd") /\ UNCHANGED <<tftp_vars, reader_vars, pure_vars, listener_vars, sharing_vars, method_vars, cluster_vars, history_vars>>

SpecHostMaps == ServersInit /\ [][HostMapNext]_vars

\* The host map calls of a configure call, in the order they were made.
HostMapCalls(log) == SelectSeq(log, LAMBDA event : event.op \in HostMapOps)

\* The host map call that is due at position k of an update that removes,
\* adds and modifies the hosts of diff.
DueCall(diff, k) ==
    LET removals == Len(diff.remove)
        additions == Len(diff.add)
    IN  IF k <= removals
        THEN [op |-> "remove", mac |-> diff.remove[k].mac, ip |-> 0]
        ELSE IF k <= removals + additions
        THEN [op |-> "create", mac |-> diff.add[k - removals].mac,
              ip |-> diff.add[k - removals].ip]
        ELSE LET host == diff.modify[(k - removals - additions + 1) \div 2]
             IN  IF (k - removals - additions) % 2 = 1
                 THEN [op |-> "remove", mac |-> host.mac, ip |-> 0]
                 ELSE [op |-> "create", mac |-> host.mac, ip |-> host.ip]

\* C34: the host map calls of a configure call are, in this order, a
\* remove for every host to remove, a create for every host to add, and
\* for every host to modify a remove followed at once by a create with the
\* new IP address; a call that fails is the last host map call of the
\* configure call, only the fallback restart follows it, and the calls
\* made before it stay as they are; when none fails all of them are made.
C34_HostMapCallOrder ==
    \A s \in Servers :
        LET c == call[s]
            made == HostMapCalls(c.log)
            due == Len(c.diff.remove) + Len(c.diff.add) + 2 * Len(c.diff.modify)
            first == Positions(c.log, HostMapOps)
        IN  /\ Len(made) <= due
            /\ \A k \in 1..Len(made) :
                   /\ made[k].op = DueCall(c.diff, k).op
                   /\ made[k].mac = DueCall(c.diff, k).mac
                   /\ made[k].ip = DueCall(c.diff, k).ip
                   /\ ~made[k].ok => k = Len(made)
            /\ \A i \in first, j \in 1..Len(c.log) :
                   i < j => \/ j \in first
                            \/ /\ c.log[j].op = "restartService"
                               /\ j = Len(c.log)
                               /\ ~c.log[j - 1].ok /\ j - 1 \in first
            /\ made # <<>> /\ AllOk(made) => Len(made) = due
            /\ made # <<>> => c.pc \in {"fallback_restart", "done"}

\* One update removes a host, adds a host and modifies a host; the create
\* of the modified host fails after the three calls before it succeeded,
\* and the fallback restart follows.
C34_Witness ==
    \E s \in Servers :
        LET c == call[s]
            made == HostMapCalls(c.log)
        IN  /\ c.pc = "done"
            /\ Len(c.diff.remove) = 1 /\ Len(c.diff.add) = 1 /\ Len(c.diff.modify) = 1
            /\ Len(made) = 4
            /\ Ops(made) = <<"remove", "create", "remove", "create">>
            /\ made[1].ok /\ made[2].ok /\ made[3].ok /\ ~made[4].ok
            /\ made[3].mac = made[4].mac
            /\ c.log[Len(c.log)].op = "restartService"

(***************************************************************************)
(* The remembered state over sequences of configure calls.                 *)
(***************************************************************************)
\* The step ends a configure call for server s with success.
Succeeds(s) == call[s].pc \notin {"idle", "done"} /\ call'[s].pc = "done" /\ call'[s].result = "ok"

\* C35: the remembered state of a server has no entry, is None or is a
\* DHCPState with at least one shared network; it has no entry until a
\* call for the server succeeds, and it changes only when a call for the
\* server succeeds: to None when that call is a stop, and to the desired
\* state of the call otherwise.  So it is None exactly when the last call
\* that succeeded was a stop, and else the desired state of that call.
C35_RememberedIsLastSuccess ==
    /\ \A s \in Servers : current_server_state[s] = Absent
    /\ [](\A s \in Servers :
             /\ current_server_state[s].kind \in {"absent", "none", "state"}
             /\ current_server_state[s].kind = "state" =>
                    current_server_state[s].shared_networks # <<>>
             /\ current_server_state[s].kind # "state" =>
                    current_server_state[s] \in {Absent, None})
    /\ [][\A s \in Servers :
              IF Succeeds(s)
              THEN /\ call'[s].stopping <=> current_server_state'[s] = None
                   /\ ~call'[s].stopping =>
                          /\ current_server_state'[s] = call'[s].new_state
                          /\ current_server_state'[s].kind = "state"
              ELSE current_server_state'[s] = current_server_state[s]]_vars

\* After a successful configuration and a successful stop of the DHCPv6
\* server, a third call for it, with a host, has failed: its remembered
\* state is None, while the DHCPv4 server remembers its configuration.
C35_Witness ==
    /\ call["dhcpd6"].pc = "done" /\ call["dhcpd6"].result # "ok"
    /\ ~call["dhcpd6"].stopping /\ call["dhcpd6"].new_state.hosts # <<>>
    /\ call["dhcpd6"].found_state = None
    /\ current_server_state["dhcpd6"] = None
    /\ current_server_state["dhcpd"].kind = "state"

(***************************************************************************)
(* configure calls that follow each other for one server: the call that    *)
(* ended last is kept next to the running one.                             *)
(***************************************************************************)
\* The arguments of configure: stop, one network without a host, with a
\* host, and with the host at another IP address.
RecoveryInputs ==
    {[BaseInput EXCEPT !.shared_networks = <<>>],
     BaseInput,
     [BaseInput EXCEPT !.hosts = <<[mac |-> 1, ip |-> 1, dhcp_snippets |-> <<>>]>>],
     [BaseInput EXCEPT !.hosts = <<[mac |-> 1, ip |-> 2, dhcp_snippets |-> <<>>]>>]}

\* The caller of configure gets the result; what the call was to achieve
\* and how it ended is kept.
CallEndsKept(s) ==
    /\ CallEnds(s)
    /\ previous_call' = [previous_call EXCEPT ![s] =
           [result |-> call[s].result, stopping |-> call[s].stopping,
            new_state |-> call[s].new_state]]

RecoveryNext ==
    \/ \E input \in RecoveryInputs :
           Configure("dhcpd", input) /\ UNCHANGED <<tftp_vars, reader_vars, pure_vars, listener_vars, sharing_vars, method_vars, cluster_vars, history_vars>>
    \/ \E ok \in BOOLEAN :
           DeleteConfig("dhcpd", ok) /\ UNCHANGED <<tftp_vars, reader_vars, pure_vars, listener_vars, sharing_vars, method_vars, cluster_vars, history_vars>>
    \/ \E outcome \in ServiceOutcomes :
           StopService("dhcpd", outcome) /\ UNCHANGED <<tftp_vars, reader_vars, pure_vars, listener_vars, sharing_vars, method_vars, cluster_vars, history_vars>>
    \/ \E outcome \in {"ok", "config_fails", "interfaces_fails"} :
           WriteConfig("dhcpd", outcome) /\ UNCHANGED <<tftp_vars, reader_vars, pure_vars, listener_vars, sharing_vars, method_vars, cluster_vars, history_vars>>
    \/ \E outcome \in ServiceOutcomes :
           RestartService("dhcpd", outcome) /\ UNCHANGED <<tftp_vars, reader_vars, pure_vars, listener_vars, sharing_vars, method_vars, cluster_vars, history_vars>>
    \/ \E outcome \in ServiceOutcomes :
           EnsureService("dhcpd", outcome) /\ UNCHANGED <<tftp_vars, reader_vars, pure_vars, listener_vars, sharing_vars, method_vars, cluster_vars, history_vars>>
    \/ \E outcome \in ServiceOutcomes :
           GetServiceState("dhcpd", outcome) /\ UNCHANGED <<tftp_vars, reader_vars, pure_vars, listener_vars, sharing_vars, method_vars, cluster_vars, history_vars>>
    \/ \E outcome \in ServiceOutcomes :
           EnsureThenUpdate("dhcpd", outcome) /\ UNCHANGED <<tftp_vars, reader_vars, pure_vars, listener_vars, sharing_vars, method_vars, cluster_vars, history_vars>>
    \/ \E failing \in 0..2 :
           UpdateHosts("dhcpd", failing) /\ UNCHANGED <<tftp_vars, reader_vars, pure_vars, listener_vars, sharing_vars, method_vars, cluster_vars, history_vars>>
    \/ \E outcome \in ServiceOutcomes :
           FallbackRestart("dhcpd", outcome) /\ UNCHANGED <<tftp_vars, reader_vars, pure_vars, listener_vars, sharing_vars, method_vars, cluster_vars, history_vars>>
    \/ CallEndsKept("dhcpd") /\ UNCHANGED <<tftp_vars, reader_vars, pure_vars, listener_vars, sharing_vars, method_vars, cluster_vars>>
    \/ ServiceDies("dhcpd") /\ UNCHANGED <<tftp_vars, reader_vars, pure_vars, listener_vars, sharing_vars, method_vars, cluster_vars, history_vars>>

SpecRecovery == ServersInit /\ [][RecoveryNext]_vars

\* The call of server s repeats, with the same desired state, the call
\* before it, which failed.
RepeatsFailedCall(s) ==
    /\ previous_call[s].result \notin {"none", "ok"}
    /\ call[s].pc # "idle"
    /\ previous_call[s].stopping = call[s].stopping
    /\ previous_call[s].new_state = call[s].new_state

\* Every step of the call other than a host map call has succeeded: the
\* removal and the writes of the configuration, and the calls of the
\* service monitor.
OnlyHostMapsFailed(log) ==
    \A i \in 1..Len(log) : log[i].op \notin HostMapOps => log[i].ok

\* C36: a configure call that repeats, with the same desired state, a call
\* that failed, and in which every write of the configuration and every
\* call of the service monitor succeeds, succeeds and leaves the desired
\* state remembered (None for a stop); when a host map call fails in it,
\* it ends in the restart of the fallback.
C36_RepeatedCallRecovers ==
    \A s \in Servers :
        LET c == call[s]
        IN  RepeatsFailedCall(s) /\ c.pc = "done" /\ OnlyHostMapsFailed(c.log) =>
                /\ c.result = "ok"
                /\ current_server_state[s] = IF c.stopping THEN None ELSE c.new_state
                /\ ~AllOk(c.log) =>
                       /\ c.log[Len(c.log)].op = "restartService"
                       /\ c.log[Len(c.log) - 1].op \in HostMapOps
                       /\ ~c.log[Len(c.log) - 1].ok

\* A call that was to move a host to another IP address failed in the
\* fallback restart after the host map had been removed; the repeated
\* call fails in its first host map call again and succeeds with the
\* fallback restart.
C36_Witness ==
    \E s \in Servers :
        LET c == call[s]
        IN  /\ RepeatsFailedCall(s) /\ c.pc = "done" /\ c.result = "ok"
            /\ OnlyHostMapsFailed(c.log) /\ ~AllOk(c.log)
            /\ c.diff.modify # <<>>
            /\ \E i \in 1..Len(c.log) : c.log[i].op = "remove" /\ ~c.log[i].ok
            /\ current_server_state[s] = c.new_state
            /\ c.found_state # c.new_state

(***************************************************************************)
(* Further properties of updateServers.                                    *)
(***************************************************************************)
\* C37: a pass made while the host has the addresses it had at the pass
\* before starts no server and stops none and leaves the services as they
\* are; in every pass a server whose address the host had before and has
\* now is after the pass the server it was before, neither stopped nor
\* started; the refresher is not among the servers a pass works on, is
\* not stopped by a pass and stays the one service of its name.
C37_PassLeavesTheRestAlone ==
    /\ Cardinality(ListenersOn(services, "refresher")) = 1
    /\ refresher \in Range(services)
    /\ \A n \in 1..Len(passes) :
           LET pass == passes[n]
               staying == NamesOf(Listeners(pass.before)) \cap pass.desired
           IN  /\ n > 1 /\ pass.desired = passes[n - 1].desired =>
                      /\ pass.started = <<>> /\ pass.stopped = <<>>
                      /\ pass.after = pass.before
               /\ \A i \in 1..Len(pass.before) :
                      pass.before[i].name \in staying =>
                          /\ pass.before[i] \in Range(pass.after)
                          /\ pass.before[i] \notin Range(pass.stopped)
                          /\ ListenersOn(pass.started, pass.before[i].name) = {}
                          /\ Cardinality(ListenersOn(pass.after, pass.before[i].name)) = 1
               /\ "refresher" \notin pass.established
               /\ refresher \in Range(pass.before) /\ refresher \in Range(pass.after)
               /\ refresher \notin Range(pass.stopped)
               /\ refresher \notin Range(pass.started)

\* Two passes while the host has one address and a link-local one: the
\* second starts and stops nothing, the server of the first pass and the
\* refresher are the services.
C37_Witness ==
    /\ Len(passes) = 2
    /\ passes[1].desired = {"10.0.0.1", "fe80::1"}
    /\ passes[2].desired = {"10.0.0.1", "fe80::1"}
    /\ passes[2].started = <<>> /\ passes[2].stopped = <<>>
    /\ services = <<refresher, [name |-> "10.0.0.1", since |-> 1]>>

(***************************************************************************)
(* maasserver/rpc/clusters.py: register_cluster                            *)
(***************************************************************************)
\* The uuids cluster controllers register with.
Uuids == {"uuid-1", "uuid-2", "master"}
ClusterNames == {"alpha"}
\* networks: None, or a list of interfaces.
NoNetworks == <<"None">>
Networks == {NoNetworks, <<>>, <<"eth0">>}
\* url: None, the default of a master on the same host, or another host.
Urls == {"None", "localhost", "region"}

\* cluster is None: the form gets no instance.
NoInstance == 0

\* NodeGroup.objects.get_by_natural_key(uuid): the position of the cluster
\* of this uuid in the table, or DoesNotExist.
get_by_natural_key(table, uuid) ==
    IF \E i \in 1..Len(table) : table[i].uuid = uuid
    THEN CHOOSE i \in 1..Len(table) : table[i].uuid = uuid
    ELSE NoInstance

\* The placeholder of the master cluster.
MasterPlaceholder ==
    [uuid |-> "master", cluster_name |-> "master", interfaces |-> <<>>,
     maas_url |-> "", master |-> TRUE]

\* NodeGroup.objects.ensure_master(): the table with the master cluster in
\* it, which is created as a placeholder when there is none.
ensure_master(table) ==
    IF \E i \in 1..Len(table) : table[i].master THEN table
    ELSE Append(table, MasterPlaceholder)
MasterOf(table) == CHOOSE i \in 1..Len(table) : table[i].master

\* master.uuid in ('master', '')
takes_masters_place_never(master) == FALSE

takes_masters_place(master) == master.uuid \in {"master", ""}

\* The try statement of register_cluster: the table as the lookups leave
\* it, the cluster the form is to work on and the message to log.
find_cluster(table, uuid) ==
    IF get_by_natural_key(table, uuid) # NoInstance
    THEN [table |-> table, cluster |-> get_by_natural_key(table, uuid),
          message |-> "Cluster registered"]
    ELSE LET ensured == ensure_master(table)
             master == MasterOf(ensured)
         IN  IF takes_masters_place(ensured[master])
             THEN [table |-> ensured, cluster |-> master,
                   message |-> "New cluster registered as master"]
             ELSE [table |-> ensured, cluster |-> NoInstance,
                   message |-> "New cluster registered"]

\* cluster.nodegroupinterface_set.exists()
has_interfaces(table, cluster) == table[cluster].interfaces # <<>>

\* Whether data["interfaces"] is set.
with_interfaces(table, cluster, networks) ==
    /\ networks # NoNetworks
    /\ cluster = NoInstance \/ ~has_interfaces(table, cluster)

\* NodeGroupDefineForm(data, status, instance).save(): a cluster is made
\* when there is no instance, else the instance is changed; its
\* interfaces are defined when data holds interfaces.
form_save(table, cluster, uuid, name, interfaces, defines) ==
    IF cluster = NoInstance
    THEN Append(table,
             [uuid |-> uuid, cluster_name |-> name,
              interfaces |-> IF defines THEN interfaces ELSE <<>>,
              maas_url |-> "", master |-> FALSE])
    ELSE [table EXCEPT ![cluster] =
             [@ EXCEPT !.uuid = uuid, !.cluster_name = name,
                       !.interfaces = IF defines THEN interfaces ELSE @]]

\* The call made last is kept, the calls before it are not.
Keep(registration) == <<registration>>

\* One call of register_cluster in its transaction: form.is_valid() is
\* `valid`; a ValidationError undoes what the call did to the table.
RegisterCluster(uuid, name, networks, url, valid) ==
    /\ LET found == find_cluster(nodegroups, uuid)
           defines == with_interfaces(found.table, found.cluster, networks)
           saved == form_save(found.table, found.cluster, uuid, name, networks, defines)
           cluster == IF found.cluster = NoInstance THEN Len(saved) ELSE found.cluster
           after == IF url \notin {"None", "localhost"}
                    THEN [saved EXCEPT ![cluster].maas_url = url]
                    ELSE saved
       IN  /\ nodegroups' = IF valid THEN after ELSE nodegroups
           /\ registrations' = Keep(
                  [uuid |-> uuid, networks |-> networks, url |-> url,
                   before |-> nodegroups, after |-> nodegroups',
                   raised |-> ~valid,
                   cluster |-> IF valid THEN cluster ELSE NoInstance,
                   message |-> found.message,
                   defines |-> defines])

ClusterNext ==
    \/ \E uuid \in Uuids, name \in ClusterNames, networks \in Networks, url \in Urls, valid \in BOOLEAN :
           RegisterCluster(uuid, name, networks, url, valid) /\ UNCHANGED <<tftp_vars, dhcp_vars, reader_vars, pure_vars, listener_vars, sharing_vars, method_vars, history_vars>>

ClusterInit ==
    /\ TFTPInit /\ live = Clients
    /\ DHCPInit
    /\ \A s \in Servers : ~service[s].active /\ ~config_exists[s]
    /\ reader = NoReader /\ image_lookup = NoLookup /\ state_pair = NoPair
    /\ NoListeners /\ NoSharing
    /\ boot_method_search = NoSearch /\ NoClusters /\ NoHistory

SpecClusters == ClusterInit /\ [][ClusterNext]_vars

\* The positions of the clusters of a uuid, and of the master cluster.
ClustersOf(table, uuid) == {i \in 1..Len(table) : table[i].uuid = uuid}
MastersIn(table) == {i \in 1..Len(table) : table[i].master}

\* C38: no two clusters have the same uuid.  A register_cluster call that
\* does not raise, for a uuid that a cluster has: changes that cluster and
\* adds none; for a uuid that no cluster has, while the master cluster has
\* the uuid 'master' or '': gives the master cluster this uuid and adds
\* none (but the placeholder, when there was no master cluster yet); for a
\* uuid that no cluster has, otherwise: adds one cluster of this uuid and
\* changes no other.  The networks are stored only if they are given and
\* the cluster is new or had no interfaces.  A call that raises changes
\* nothing.
C38_NoSecondCluster ==
    /\ \A uuid \in Uuids : Cardinality(ClustersOf(nodegroups, uuid)) <= 1
    /\ Cardinality(MastersIn(nodegroups)) <= 1
    /\ \A n \in 1..Len(registrations) :
           LET r == registrations[n]
               known == ClustersOf(r.before, r.uuid)
               masters == MastersIn(r.before)
               unconfigured ==
                   \/ masters = {}
                   \/ \E i \in masters : r.before[i].uuid \in {"master", ""}
               others == {i \in 1..Len(r.before) : i # r.cluster}
           IN  IF r.raised THEN r.after = r.before
               ELSE /\ ClustersOf(r.after, r.uuid) = {r.cluster}
                    /\ \A i \in others : r.after[i] = r.before[i]
                    /\ known # {} =>
                           /\ Len(r.after) = Len(r.before)
                           /\ r.cluster \in known
                    /\ known = {} /\ unconfigured =>
                           /\ r.cluster \in MastersIn(r.after)
                           /\ masters # {} => Len(r.after) = Len(r.before)
                           /\ masters # {} => r.cluster \in masters
                           /\ masters = {} => Len(r.after) = 1 /\ r.before = <<>>
                    /\ known = {} /\ ~unconfigured =>
                           /\ Len(r.after) = Len(r.before) + 1
                           /\ r.cluster = Len(r.after)
                           /\ ~r.after[r.cluster].master
                    /\ LET was == IF r.cluster <= Len(r.before)
                                  THEN r.before[r.cluster].interfaces ELSE <<>>
                       IN  IF r.networks # NoNetworks /\ was = <<>>
                           THEN r.after[r.cluster].interfaces = r.networks
                           ELSE r.after[r.cluster].interfaces = was

\* Two clusters: the first to register took the place of the master, a
\* second was created; the last call registered the second uuid again,
\* with other networks, which were not stored, and added no cluster.
C38_Witness ==
    /\ Len(nodegroups) = 2
    /\ nodegroups[1].master /\ nodegroups[1].uuid = "uuid-1"
    /\ nodegroups[2].uuid = "uuid-2" /\ nodegroups[2].interfaces = <<"eth0">>
    /\ Len(registrations) = 1
    /\ registrations[1].uuid = "uuid-2" /\ ~registrations[1].raised
    /\ registrations[1].networks = <<>>
    /\ Len(registrations[1].before) = 2
    /\ registrations[1].before[2].uuid = "uuid-2"
    /\ registrations[1].before[2].maas_url # nodegroups[2].maas_url
====
